---- MODULE Spec2Model ----
(***************************************************************************)
(* Model of the B2MML master-recipe generator (Master Recipe Generator.py, *)
(* src/unnamed/part_000).  Python strings are TLA+ strings, Python lists   *)
(* are sequences, Python dicts are records or functions, and None is the   *)
(* reserved string None.  A key that a dict may lack is modelled by the    *)
(* value its .get() default yields (an empty sequence for a list), and the *)
(* three keys that the step pass stores on a process element are one       *)
(* optional record, stash.                                                 *)
(***************************************************************************)
EXTENDS Integers, Sequences, FiniteSets, TLC

VARIABLES
    resources,       \* the resource capability catalog
    solutions,       \* solutions['solutions']
    optimization,    \* optimization['optimal_solution']['solution_id']
    general_recipe,  \* general_recipe['ProcessElements'], with what the compile stores on them
    result,          \* how the last call ended: "none", "ok", "ValueError", "AttributeError"
                     \* (the formatter harness: "value", "unit"; the resolver harness:
                     \* "returned", "AttributeError"; the optimizer: "loaded")
    out,             \* what the last call returned or raised, and the id it was asked for
    prev,            \* result and out of the call before the last one
    file,            \* the content of MasterRecipe_B2MML.xml
    uuid4,           \* what the successive calls of uuid.uuid4() in one compile return
    uin,             \* input of the formatter harness, arguments of the resolver harness
    uout,            \* output of the formatter harness, return value of the resolver harness
    aas_files,       \* the AAS XML files on disk, by path
    resource_files,  \* the list of paths handed to the optimizer
    resource_costs   \* SolutionOptimizer.resource_costs

\* the optimizer's variables
optimizer == <<aas_files, resource_files, resource_costs>>

vars == <<resources, solutions, optimization, general_recipe, result, out, prev, file, uuid4, uin, uout,
          aas_files, resource_files, resource_costs>>

(***************************************************************************)
(* Bounds                                                                  *)
(***************************************************************************)
MaxPE == 2      \* process elements in a recipe
MaxAsg == 1     \* assignments in the free solution
MaxStrLen == 4  \* length of the strings fed to the formatters
MaxProps == 2   \* properties in the OptimizationCost submodel of the free AAS file
MaxSols == 3    \* solutions in the file the optimizer ranks

(***************************************************************************)
(* Python string primitives                                                *)
(***************************************************************************)
None == "<None>"

Char(s, i) == SubSeq(s, i, i)

\* s[n:]
Drop(s, n) == IF n >= Len(s) THEN "" ELSE SubSeq(s, n + 1, Len(s))

\* s.startswith(p)
StartsWith(s, p) == Len(s) >= Len(p) /\ SubSeq(s, 1, Len(p)) = p

\* s is a suffix of t
IsSuffix(s, t) == Len(s) <= Len(t) /\ Drop(t, Len(t) - Len(s)) = s

\* c in s, for a one-character c
RECURSIVE Contains(_, _)
Contains(s, c) ==
    IF Len(s) = 0 THEN FALSE
    ELSE IF Char(s, 1) = c THEN TRUE
    ELSE Contains(Drop(s, 1), c)

\* the positions at which old occurs in s
Occurrences(s, old) ==
    {i \in 1..(Len(s) - Len(old) + 1) : SubSeq(s, i, i + Len(old) - 1) = old}

\* s.replace(old, ''): the leftmost occurrence is cut out, then the next one
\* that starts after it, and so on
RECURSIVE Remove(_, _)
Remove(s, old) ==
    LET occ == Occurrences(s, old) IN
    IF occ = {} THEN s
    ELSE LET i == CHOOSE x \in occ : \A y \in occ : x <= y IN
         SubSeq(s, 1, i - 1) \o Remove(Drop(s, i + Len(old) - 1), old)

\* s.replace(' ', '_')
RECURSIVE Underscore(_)
Underscore(s) ==
    IF Len(s) = 0 THEN ""
    ELSE (IF Char(s, 1) = " " THEN "_" ELSE Char(s, 1)) \o Underscore(Drop(s, 1))

Upper == "ABCDEFGHIJKLMNOPQRSTUVWXYZ"
LowerLetters == "abcdefghijklmnopqrstuvwxyz"

LowerOf ==
    [c \in {Char(Upper, i) : i \in 1..Len(Upper)} |->
        Char(LowerLetters, CHOOSE i \in 1..Len(Upper) : Char(Upper, i) = c)]

LowerChar(c) == IF c \in DOMAIN LowerOf THEN LowerOf[c] ELSE c

\* s.lower()
RECURSIVE Lower(_)
Lower(s) == IF Len(s) = 0 THEN "" ELSE LowerChar(Char(s, 1)) \o Lower(Drop(s, 1))

Digits == "0123456789"

\* str(n) for n >= 0
RECURSIVE Dec(_)
Dec(n) == IF n < 10 THEN Char(Digits, n + 1) ELSE Dec(n \div 10) \o Char(Digits, (n % 10) + 1)

\* f"{n:03d}"
Pad3(n) == LET d == Dec(n) IN
    IF Len(d) >= 3 THEN d ELSE IF Len(d) = 2 THEN "0" \o d ELSE "00" \o d

\* uri.split('/')[-1]
RECURSIVE LastSegment(_)
LastSegment(s) ==
    IF Len(s) = 0 THEN ""
    ELSE IF Char(s, Len(s)) = "/" THEN ""
    ELSE LastSegment(SubSeq(s, 1, Len(s) - 1)) \o Char(s, Len(s))

(***************************************************************************)
(* The formatters: map_data_type, map_unit, and the operator strip         *)
(***************************************************************************)
map_data_type(json_type) ==
    CASE json_type = "xs:int" -> "integer"
      [] json_type = "xs:double" -> "double"
      [] json_type = "int" -> "integer"
      [] json_type = "double" -> "double"
      [] json_type = "duration" -> "duration"
      [] OTHER -> json_type

UnitSecond == "http://si-digital-framework.org/SI/units/second"
UnitLitre == "http://si-digital-framework.org/SI/units/litre"
UnitCelsius == "http://si-digital-framework.org/SI/units/degreeCelsius"
UnitRevPerMin == "http://qudt.org/vocab/unit/REV-PER-MIN"
UnitPercent == "http://qudt.org/vocab/unit/PERCENT"
UnitCycPerSec == "http://qudt.org/vocab/unit/CYC-PER-SEC"

KnownUnits == {UnitSecond, UnitLitre, UnitCelsius, UnitRevPerMin, UnitPercent, UnitCycPerSec}

UnitLabel(unit_uri) ==
    CASE unit_uri = UnitSecond -> "Sekunde"
      [] unit_uri = UnitLitre -> "Liter"
      [] unit_uri = UnitCelsius -> "Grad Celsius"
      [] unit_uri = UnitRevPerMin -> "Umdrehungen pro Minute"
      [] unit_uri = UnitPercent -> "Prozent"
      [] unit_uri = UnitCycPerSec -> "Zyklen pro Sekunde"

\* uri.split('/')[0]
RECURSIVE FirstSegment(_)
FirstSegment(s) ==
    IF Len(s) = 0 THEN ""
    ELSE IF Char(s, 1) = "/" THEN ""
    ELSE Char(s, 1) \o FirstSegment(Drop(s, 1))

map_unit_as_first_segment(unit_uri) ==
    IF unit_uri \in KnownUnits THEN UnitLabel(unit_uri)
    ELSE IF Contains(unit_uri, "/") THEN FirstSegment(unit_uri)
    ELSE unit_uri

map_unit(unit_uri) ==
    IF unit_uri \in KnownUnits THEN UnitLabel(unit_uri)
    ELSE IF Contains(unit_uri, "/") THEN LastSegment(unit_uri)
    ELSE unit_uri

StripOperator_as_repeated(value_str) ==
    IF StartsWith(value_str, ">=") \/ StartsWith(value_str, "<=")
    THEN LET r == Drop(value_str, 2) IN
         IF StartsWith(r, ">=") \/ StartsWith(r, "<=") THEN Drop(r, 2) ELSE r
    ELSE value_str

\* lines 204-207: the ValueString with a leading >= or <= removed
StripOperator(value_str) ==
    IF StartsWith(value_str, ">=") \/ StartsWith(value_str, "<=")
    THEN Drop(value_str, 2)
    ELSE value_str

(***************************************************************************)
(* find_property_realized_by (lines 81-107)                                *)
(***************************************************************************)
Raised == "<AttributeError>"

Min(S) == CHOOSE x \in S : \A y \in S : x <= y

\* lines 87-91: some entry of the record's capability list has the name
CapMatch(capability_data, capability_name) ==
    \E i \in 1..Len(capability_data.capability) :
        capability_data.capability[i].capability_name = capability_name

\* prop.get('property_name', '')
NameOrEmpty(prop) == IF prop.property_name = None THEN "" ELSE prop.property_name

ExactHits(props, property_name) ==
    {i \in 1..Len(props) : props[i].property_name = property_name}

LowerHits(props, property_name) ==
    {i \in 1..Len(props) : Lower(NameOrEmpty(props[i])) = Lower(property_name)}

ScanRecord_as_lower_first(capability_data, property_name) ==
    LET props == capability_data.properties IN
    IF Len(props) = 0 THEN "<continue>"
    ELSE IF property_name = None
         THEN (IF ExactHits(props, property_name) # {}
               THEN props[Min(ExactHits(props, property_name))].propertyRealizedBy
               ELSE Raised)
    ELSE IF LowerHits(props, property_name) # {}
         THEN props[Min(LowerHits(props, property_name))].propertyRealizedBy
    ELSE "<continue>"

\* lines 96-105 for one accepted record: the exact pass, then the
\* case-insensitive pass, whose property_name.lower() raises on None
ScanRecord(capability_data, property_name) ==
    LET props == capability_data.properties IN
    IF ExactHits(props, property_name) # {}
    THEN props[Min(ExactHits(props, property_name))].propertyRealizedBy
    ELSE IF Len(props) = 0 THEN "<continue>"
    ELSE IF property_name = None THEN Raised
    ELSE IF LowerHits(props, property_name) # {}
         THEN props[Min(LowerHits(props, property_name))].propertyRealizedBy
    ELSE "<continue>"

RECURSIVE ScanFrom(_, _, _, _)
ScanFrom(records, k, capability_name, property_name) ==
    IF k > Len(records) THEN None
    ELSE IF ~CapMatch(records[k], capability_name)
         THEN ScanFrom(records, k + 1, capability_name, property_name)
    ELSE LET r == ScanRecord(records[k], property_name) IN
         IF r = "<continue>" THEN ScanFrom(records, k + 1, capability_name, property_name)
         ELSE r

find_property_realized_by(res, resource_name, capability_name, property_name) ==
    IF resource_name \notin DOMAIN res THEN None
    ELSE ScanFrom(res[resource_name], 1, capability_name, property_name)

\* Python truth value of a string or None
Truthy(x) == x # None /\ x # ""

(***************************************************************************)
(* Lookup of the solution and of an element's assignment                   *)
(***************************************************************************)
\* lines 27-31: index of the first solution with the id, 0 when there is none
FindSolution_as_last(sols, id) ==
    LET hits == {i \in 1..Len(sols) : sols[i].solution_id = id} IN
    IF hits = {} THEN 0 ELSE CHOOSE i \in hits : \A j \in hits : j <= i

FindSolution(sols, id) ==
    LET hits == {i \in 1..Len(sols) : sols[i].solution_id = id} IN
    IF hits = {} THEN 0 ELSE Min(hits)

FindAssignment_as_last(assignments, pe_id) ==
    LET hits == {i \in 1..Len(assignments) : assignments[i].step_id = pe_id} IN
    IF hits = {} THEN 0 ELSE CHOOSE i \in hits : \A j \in hits : j <= i

\* lines 139-143, 236-240, 388-392: index of the first assignment whose
\* step_id is the element's ID, 0 when there is none
FindAssignment(assignments, pe_id) ==
    LET hits == {i \in 1..Len(assignments) : assignments[i].step_id = pe_id} IN
    IF hits = {} THEN 0 ELSE Min(hits)

\* assignment['resource'].replace('resource: ', '').replace('2025-04_', '')
ResourceShort(resource) == Remove(Remove(resource, "resource: "), "2025-04_")

(***************************************************************************)
(* The formula pass (lines 132-213)                                        *)
(***************************************************************************)
MatchedHits_as_key_only(capability_detail, param) ==
    {j \in 1..Len(capability_detail.matched_properties) :
        capability_detail.matched_properties[j].property_id = param.Key}

\* lines 166-169: the descriptors of the detail with the parameter's key and
\* unit
MatchedHits(capability_detail, param) ==
    {j \in 1..Len(capability_detail.matched_properties) :
        /\ capability_detail.matched_properties[j].property_id = param.Key
        /\ capability_detail.matched_properties[j].property_unit = param.UnitOfMeasure}

\* lines 165-180: cur is param_id as the earlier details left it
RECURSIVE DetailScan(_, _, _, _, _)
DetailScan(res, assignment, param, k, cur) ==
    IF k > Len(assignment.capability_details) THEN cur
    ELSE LET cdt == assignment.capability_details[k]
             hits == MatchedHits(cdt, param) IN
         IF hits = {} THEN DetailScan(res, assignment, param, k + 1, cur)
         ELSE LET r == find_property_realized_by(res, assignment.resource, cdt.capability_name,
                           cdt.matched_properties[Min(hits)].property_name) IN
              IF r = Raised THEN Raised
              ELSE IF Truthy(r) THEN r
              ELSE DetailScan(res, assignment, param, k + 1, r)

ResolveParam_as_fixed_for_element(res, pe, param, assignment) ==
    IF pe.ID = "Dosing001"
    THEN find_property_realized_by(res, assignment.resource, "Dosing", "Litre")
    ELSE DetailScan(res, assignment, param, 1, None)

\* lines 151-180: param_id before the null substitution
ResolveParam(res, pe, param, assignment) ==
    IF pe.ID = "Dosing001" /\ param.ID = "Dosing_Amount001"
    THEN find_property_realized_by(res, assignment.resource, "Dosing", "Litre")
    ELSE DetailScan(res, assignment, param, 1, None)

FormatId(counter, ref) == Pad3(counter) \o ":" \o ref

\* lines 190-211
FormulaEntry(formatted_param_id, param, assignment) ==
    [ID |-> formatted_param_id,
     Description |-> ResourceShort(assignment.resource) \o "_" \o Underscore(param.Description),
     ParameterType |-> "ProcessParameter",
     ParameterSubType |-> "ST",
     ValueString |-> StripOperator(param.ValueString),
     DataInterpretation |-> "Constant",
     DataType |-> map_data_type(param.DataType),
     UnitOfMeasure |-> map_unit(param.UnitOfMeasure)]

\* param_mapping[key] = value
Store(mapping, key, value) == [k \in DOMAIN mapping \cup {key} |-> IF k = key THEN value ELSE mapping[k]]

EmptyMapping == [k \in {} |-> ""]

FormulaStart ==
    [formula |-> <<>>, param_mapping |-> EmptyMapping, global_param_counter |-> 1,
     raised |-> FALSE, src |-> <<>>]

FormulaStep_as_counter_per_element(res, pe, i, j, assignment, acc) ==
    LET param == pe.Parameters[j]
        r == ResolveParam(res, pe, param, assignment) IN
    IF r = Raised THEN [acc EXCEPT !.raised = TRUE]
    ELSE LET param_id == IF Truthy(r) THEN r ELSE "null"
             formatted_param_id == FormatId(j, param_id) IN
         [formula |-> Append(acc.formula, FormulaEntry(formatted_param_id, param, assignment)),
          param_mapping |-> Store(acc.param_mapping, param.ID, formatted_param_id),
          global_param_counter |-> acc.global_param_counter + 1,
          raised |-> FALSE,
          src |-> Append(acc.src, <<i, j>>)]

FormulaStep_as_none_text(res, pe, i, j, assignment, acc) ==
    LET param == pe.Parameters[j]
        r == ResolveParam(res, pe, param, assignment) IN
    IF r = Raised THEN [acc EXCEPT !.raised = TRUE]
    ELSE LET param_id == IF r = None THEN "None" ELSE r
             formatted_param_id == FormatId(acc.global_param_counter, param_id) IN
         [formula |-> Append(acc.formula, FormulaEntry(formatted_param_id, param, assignment)),
          param_mapping |-> Store(acc.param_mapping, param.ID, formatted_param_id),
          global_param_counter |-> acc.global_param_counter + 1,
          raised |-> FALSE,
          src |-> Append(acc.src, <<i, j>>)]

\* lines 149-213 for one parameter; src records which (element, parameter)
\* position each entry came from
FormulaStep(res, pe, i, j, assignment, acc) ==
    LET param == pe.Parameters[j]
        r == ResolveParam(res, pe, param, assignment) IN
    IF r = Raised THEN [acc EXCEPT !.raised = TRUE]
    ELSE LET param_id == IF Truthy(r) THEN r ELSE "null"
             formatted_param_id == FormatId(acc.global_param_counter, param_id) IN
         [formula |-> Append(acc.formula, FormulaEntry(formatted_param_id, param, assignment)),
          param_mapping |-> Store(acc.param_mapping, param.ID, formatted_param_id),
          global_param_counter |-> acc.global_param_counter + 1,
          raised |-> FALSE,
          src |-> Append(acc.src, <<i, j>>)]

RECURSIVE ParamLoop(_, _, _, _, _, _)
ParamLoop(res, pe, i, j, assignment, acc) ==
    IF acc.raised \/ j > Len(pe.Parameters) THEN acc
    ELSE ParamLoop(res, pe, i, j + 1, assignment, FormulaStep(res, pe, i, j, assignment, acc))

RECURSIVE FormulaLoop(_, _, _, _, _)
FormulaLoop(res, recipe, assignments, i, acc) ==
    IF acc.raised \/ i > Len(recipe) THEN acc
    ELSE LET a == FindAssignment(assignments, recipe[i].ID) IN
         IF a = 0 THEN FormulaLoop(res, recipe, assignments, i + 1, acc)
         ELSE FormulaLoop(res, recipe, assignments, i + 1,
                          ParamLoop(res, recipe[i], i, 1, assignments[a], acc))

FormulaPass(res, recipe, assignments) == FormulaLoop(res, recipe, assignments, 1, FormulaStart)

(***************************************************************************)
(* The step pass (lines 219-302)                                           *)
(***************************************************************************)
\* lines 251-256: the first truthy capability_name of the assignment's details
CapabilityName(assignment) ==
    LET hits == {k \in 1..Len(assignment.capability_details) :
                    Truthy(assignment.capability_details[k].capability_name)} IN
    IF hits = {} THEN "Unknown" ELSE assignment.capability_details[Min(hits)].capability_name

RealizingHits_as_ignoring_capabilities(res, assignment) ==
    IF assignment.resource \notin DOMAIN res THEN {}
    ELSE {k \in 1..Len(res[assignment.resource]) : Len(res[assignment.resource][k].realized_by) > 0}

\* lines 262-268: the record shares a capability name with the assignment
\* and has a non-empty realized_by list
RealizingHits(res, assignment) ==
    IF assignment.resource \notin DOMAIN res THEN {}
    ELSE {k \in 1..Len(res[assignment.resource]) :
            /\ \E c \in 1..Len(res[assignment.resource][k].capability) :
                   res[assignment.resource][k].capability[c].capability_name \in assignment.capabilities
            /\ Len(res[assignment.resource][k].realized_by) > 0}

StepStart_as_seeded_from_records(recipe) ==
    [steps |-> << [id |-> "S1", recipe_element_id |-> "Init", description |-> "Init"] >>,
     step_counter |-> 2,
     recipe_element_counter |-> 1 + Cardinality({i \in 1..Len(recipe) : Len(recipe[i].stash) > 0}),
     recipe |-> recipe,
     drawn |-> 0,
     src |-> <<0>>]

StepStart(recipe) ==
    [steps |-> << [id |-> "S1", recipe_element_id |-> "Init", description |-> "Init"] >>,
     step_counter |-> 2,
     recipe_element_counter |-> 1,
     recipe |-> recipe,
     drawn |-> 0,
     src |-> <<0>>]

StepStep_as_unnumbered(res, i, assignment, toks, acc) ==
    LET pe == acc.recipe[i]
        hits == RealizingHits(res, assignment)
        n == acc.recipe_element_counter
        recipe_element_id ==
            IF hits # {}
            THEN res[assignment.resource][Min(hits)].realized_by[1]
            ELSE toks[acc.drawn + 1]
        capability_name == CapabilityName(assignment)
        step_description ==
            Pad3(n) \o ":" \o ResourceShort(assignment.resource) \o "_" \o pe.Description
                \o ":" \o capability_name IN
    [steps |-> Append(acc.steps, [id |-> "S" \o Dec(acc.step_counter),
                                  recipe_element_id |-> recipe_element_id,
                                  description |-> step_description]),
     step_counter |-> acc.step_counter + 1,
     recipe_element_counter |-> n + 1,
     recipe |-> [acc.recipe EXCEPT ![i].stash =
                    << [recipe_element_id |-> recipe_element_id,
                        recipe_element_number |-> n,
                        capability_name |-> capability_name] >>],
     drawn |-> IF hits # {} THEN acc.drawn ELSE acc.drawn + 1,
     src |-> Append(acc.src, i)]

\* lines 246-295 for one assigned element; toks[n] is what the n-th call of
\* uuid.uuid4() returns
StepStep(res, i, assignment, toks, acc) ==
    LET pe == acc.recipe[i]
        hits == RealizingHits(res, assignment)
        n == acc.recipe_element_counter
        recipe_element_id ==
            IF hits # {}
            THEN FormatId(n, res[assignment.resource][Min(hits)].realized_by[1])
            ELSE FormatId(n, toks[acc.drawn + 1])
        capability_name == CapabilityName(assignment)
        step_description ==
            Pad3(n) \o ":" \o ResourceShort(assignment.resource) \o "_" \o pe.Description
                \o ":" \o capability_name IN
    [steps |-> Append(acc.steps, [id |-> "S" \o Dec(acc.step_counter),
                                  recipe_element_id |-> recipe_element_id,
                                  description |-> step_description]),
     step_counter |-> acc.step_counter + 1,
     recipe_element_counter |-> n + 1,
     recipe |-> [acc.recipe EXCEPT ![i].stash =
                    << [recipe_element_id |-> recipe_element_id,
                        recipe_element_number |-> n,
                        capability_name |-> capability_name] >>],
     drawn |-> IF hits # {} THEN acc.drawn ELSE acc.drawn + 1,
     src |-> Append(acc.src, i)]

RECURSIVE StepLoop_as_counting_skipped(_, _, _, _, _)
StepLoop_as_counting_skipped(res, assignments, toks, i, acc) ==
    IF i > Len(acc.recipe) THEN acc
    ELSE LET a == FindAssignment(assignments, acc.recipe[i].ID) IN
         IF a = 0
         THEN StepLoop_as_counting_skipped(res, assignments, toks, i + 1,
                    [acc EXCEPT !.step_counter = acc.step_counter + 1])
         ELSE StepLoop_as_counting_skipped(res, assignments, toks, i + 1,
                    StepStep(res, i, assignments[a], toks, acc))

RECURSIVE StepLoop(_, _, _, _, _)
StepLoop(res, assignments, toks, i, acc) ==
    IF i > Len(acc.recipe) THEN acc
    ELSE LET a == FindAssignment(assignments, acc.recipe[i].ID) IN
         IF a = 0 THEN StepLoop(res, assignments, toks, i + 1, acc)
         ELSE StepLoop(res, assignments, toks, i + 1, StepStep(res, i, assignments[a], toks, acc))

\* lines 219-302: the step list with the End step, and the recipe as the
\* pass leaves it
StepPass(res, recipe, assignments, toks) ==
    LET acc == StepLoop(res, assignments, toks, 1, StepStart(recipe)) IN
    [acc EXCEPT !.steps = Append(acc.steps, [id |-> "S" \o Dec(acc.step_counter),
                                             recipe_element_id |-> "End",
                                             description |-> "End"]),
                !.src = Append(acc.src, 0)]

(***************************************************************************)
(* Links, steps and transitions (lines 304-370)                            *)
(***************************************************************************)
Link(link_counter, from, fromType, to, toType) ==
    [ID |-> "L" \o Dec(link_counter),
     FromIDValue |-> from, FromType |-> fromType,
     ToIDValue |-> to, ToType |-> toType,
     LinkType |-> "ControlLink", Depiction |-> "LineAndArrow",
     EvaluationOrder |-> "1", Description |-> "string"]

\* lines 305-348; i is the 0-based loop index
RECURSIVE LinkLoop(_, _, _, _)
LinkLoop(steps, i, link_counter, links) ==
    IF i >= Len(steps) - 1 THEN links
    ELSE LinkLoop(steps, i + 1, link_counter + 2,
            links \o << Link(link_counter, steps[i + 1].id, "Step", "T" \o Dec(i + 1), "Transition"),
                        Link(link_counter + 1, "T" \o Dec(i + 1), "Transition", steps[i + 2].id, "Step") >>)

Links_as_grouped(steps) ==
    [k \in 1..(Len(steps) - 1) |-> Link(k, steps[k].id, "Step", "T" \o Dec(k), "Transition")]
        \o [k \in 1..(Len(steps) - 1) |->
                Link(Len(steps) - 1 + k, "T" \o Dec(k), "Transition", steps[k + 1].id, "Step")]

Links_as_returning_to_init(steps) ==
    LET links == LinkLoop(steps, 0, 1, <<>>) IN
    [k \in 1..Len(links) |->
        IF k = Len(links) THEN [links[k] EXCEPT !.ToIDValue = steps[1].id] ELSE links[k]]

Links(steps) == LinkLoop(steps, 0, 1, <<>>)

\* lines 351-356
StepElements(steps) ==
    [k \in 1..Len(steps) |->
        [ID |-> steps[k].id, RecipeElementID |-> steps[k].recipe_element_id,
         Description |-> steps[k].description]]

Transitions_as_following_step(steps) ==
    [i \in 1..(Len(steps) - 1) |->
        [ID |-> "T" \o Dec(i),
         Condition |-> IF i = 1 THEN "True"
                       ELSE "Step " \o steps[i + 1].description \o " is Completed"]]

Transitions_as_first_guard_on_init(steps) ==
    [i \in 1..(Len(steps) - 1) |->
        [ID |-> "T" \o Dec(i),
         Condition |-> "Step " \o steps[i].description \o " is Completed"]]

Transitions_as_one_per_step(steps) ==
    [i \in 1..Len(steps) |->
        [ID |-> "T" \o Dec(i),
         Condition |-> IF i = 1 THEN "True"
                       ELSE "Step " \o steps[i].description \o " is Completed"]]

\* lines 359-370; steps[i-1] of the 0-based list is the i-th step
Transitions(steps) ==
    [i \in 1..(Len(steps) - 1) |->
        [ID |-> "T" \o Dec(i),
         Condition |-> IF i = 1 THEN "True"
                       ELSE "Step " \o steps[i].description \o " is Completed"]]

(***************************************************************************)
(* Recipe elements (lines 372-425)                                         *)
(***************************************************************************)
RECURSIVE InsertByNumber_as_descending(_, _, _)
InsertByNumber_as_descending(recipe, sorted, i) ==
    IF Len(sorted) = 0 THEN <<i>>
    ELSE LET last == sorted[Len(sorted)] IN
         IF recipe[last].stash[1].recipe_element_number >= recipe[i].stash[1].recipe_element_number
         THEN Append(sorted, i)
         ELSE Append(InsertByNumber_as_descending(recipe, SubSeq(sorted, 1, Len(sorted) - 1), i), last)

\* stable insertion of index i into a list of indices ordered by number
RECURSIVE InsertByNumber(_, _, _)
InsertByNumber(recipe, sorted, i) ==
    IF Len(sorted) = 0 THEN <<i>>
    ELSE LET last == sorted[Len(sorted)] IN
         IF recipe[last].stash[1].recipe_element_number <= recipe[i].stash[1].recipe_element_number
         THEN Append(sorted, i)
         ELSE Append(InsertByNumber(recipe, SubSeq(sorted, 1, Len(sorted) - 1), i), last)

\* lines 381-384: the indices of the elements that carry a
\* recipe_element_number, sorted by it (sorted() is stable)
RECURSIVE SortedFrom(_, _, _)
SortedFrom(recipe, i, sorted) ==
    IF i > Len(recipe) THEN sorted
    ELSE IF Len(recipe[i].stash) = 0 THEN SortedFrom(recipe, i + 1, sorted)
    ELSE SortedFrom(recipe, i + 1, InsertByNumber(recipe, sorted, i))

recipe_elements_sorted(recipe) == SortedFrom(recipe, 1, <<>>)

pe_short(description) ==
    CASE description = "Mixing_of_Liquids" -> "Mixing"
      [] description = "Dosing" -> "Dosing"
      [] description = "Heating_of_liquids" -> "Heating"
      [] OTHER -> description

\* lines 421-425
RECURSIVE ParamRefs(_, _, _)
ParamRefs(params, j, param_mapping) ==
    IF j > Len(params) THEN <<>>
    ELSE (IF params[j].ID \in DOMAIN param_mapping
          THEN << [ID |-> param_mapping[params[j].ID], ParameterType |-> "ProcessParameter"] >>
          ELSE <<>>) \o ParamRefs(params, j + 1, param_mapping)

\* lines 397-425
OperationElement(pe, assignment, param_mapping) ==
    [ID |-> pe.stash[1].recipe_element_id,
     Description |-> ResourceShort(assignment.resource) \o "_" \o pe_short(pe.Description)
                        \o "_Procedure:" \o pe.stash[1].capability_name,
     RecipeElementType |-> "Operation",
     ActualEquipmentID |-> ResourceShort(assignment.resource) \o "Instance",
     EquipmentRequirement |-> "Equipment Requirement for the HCs",
     Parameter |-> ParamRefs(pe.Parameters, 1, param_mapping)]

RECURSIVE ElementLoop_as_emitting_stale(_, _, _, _, _, _)
ElementLoop_as_emitting_stale(recipe, assignments, param_mapping, order, k, acc) ==
    IF k > Len(order) THEN acc
    ELSE LET pe == recipe[order[k]]
             a == FindAssignment(assignments, pe.ID) IN
         ElementLoop_as_emitting_stale(recipe, assignments, param_mapping, order, k + 1,
            [elements |-> Append(acc.elements,
                                 OperationElement(pe, IF a = 0 THEN [resource |-> "Unknown"] ELSE assignments[a],
                                                  param_mapping)),
             src |-> Append(acc.src, order[k])])

\* lines 386-425; acc.src records the recipe position of each emitted element
RECURSIVE ElementLoop(_, _, _, _, _, _)
ElementLoop(recipe, assignments, param_mapping, order, k, acc) ==
    IF k > Len(order) THEN acc
    ELSE LET pe == recipe[order[k]]
             a == FindAssignment(assignments, pe.ID) IN
         IF a = 0 THEN ElementLoop(recipe, assignments, param_mapping, order, k + 1, acc)
         ELSE ElementLoop(recipe, assignments, param_mapping, order, k + 1,
                [elements |-> Append(acc.elements, OperationElement(pe, assignments[a], param_mapping)),
                 src |-> Append(acc.src, order[k])])

\* lines 304-370: the children of the ProcedureLogic element in document
\* order, each with its tag and its ID
ProcedureChildren(steps) ==
    [k \in 1..Len(Links(steps)) |-> [tag |-> "b2mml:Link", ID |-> Links(steps)[k].ID]]
        \o [k \in 1..Len(steps) |-> [tag |-> "b2mml:Step", ID |-> StepElements(steps)[k].ID]]
        \o [k \in 1..(Len(steps) - 1) |-> [tag |-> "b2mml:Transition", ID |-> Transitions(steps)[k].ID]]

\* lines 374-377
Markers ==
    << [ID |-> "Init", RecipeElementType |-> "Begin"],
       [ID |-> "End", RecipeElementType |-> "End"] >>

ElementPass_as_end_last(recipe, assignments, param_mapping) ==
    LET acc == ElementLoop(recipe, assignments, param_mapping, recipe_elements_sorted(recipe), 1,
                           [elements |-> <<Markers[1]>>, src |-> <<0>>]) IN
    [elements |-> Append(acc.elements, Markers[2]), src |-> Append(acc.src, 0)]

\* lines 372-425: the RecipeElement children of the master recipe in document
\* order
ElementPass(recipe, assignments, param_mapping) ==
    ElementLoop(recipe, assignments, param_mapping, recipe_elements_sorted(recipe), 1,
                [elements |-> Markers, src |-> <<0, 0>>])

(***************************************************************************)
(* generate_b2mml_master_recipe (lines 24-434)                             *)
(***************************************************************************)
\* lines 37-75, 78, 216: the element tree; the two datetime.now() stamps
\* are left out
Document(recipe_id, optimal_solution_id, formula, steps, elements) ==
    [ListHeader |-> [ID |-> "ListHeadID"],
     Description |-> "This Batch Information includes the Master Recipe based on General Recipe "
                        \o recipe_id \o " and Optimal Solution " \o Dec(optimal_solution_id),
     MasterRecipe |->
        [ID |-> "MasterRecipe_" \o Dec(optimal_solution_id),
         Version |-> "1.0.0",
         Description |-> "Master recipe based on General Recipe " \o recipe_id
                            \o " and optimized solution " \o Dec(optimal_solution_id)
                            \o " using resources from optimization",
         Header |-> [ProductID |-> "StirredHeatedWater", ProductName |-> "Stirred and Heated Water"],
         EquipmentRequirement |->
            [ID |-> "Equipment Requirement for the HCs",
             Constraint |-> [ID |-> "Material constraint", Condition |-> "Material == H2O"],
             Description |-> "Only water is allowed for the stirring and heating process"],
         Formula |-> [Parameter |-> formula],
         ProcedureLogic |-> [Children |-> ProcedureChildren(steps),
                             Link |-> Links(steps), Step |-> StepElements(steps),
                             Transition |-> Transitions(steps)],
         RecipeElement |-> elements]]

NoTrace == [solution |-> 0, formula |-> <<>>, steps |-> <<>>, elements |-> <<>>]

Failure(kind, message, requested, recipe) ==
    [result |-> kind,
     out |-> [xml |-> <<>>, optimal_solution_id |-> 0, message |-> message,
              requested |-> requested, trace |-> NoTrace],
     recipe |-> recipe]

\* The whole call on the records it is handed.  recipe is the list of
\* process elements as the caller holds it; the result carries the list as
\* the call leaves it.  trace tells, for every emitted formula entry, step
\* and recipe element, the recipe position it came from.
Generate(res, sols, optimal_solution_id, recipe_id, recipe, toks) ==
    LET s == FindSolution(sols, optimal_solution_id) IN
    IF s = 0
    THEN Failure("ValueError",
                 "Optimal solution " \o Dec(optimal_solution_id) \o " not found in solutions.json",
                 optimal_solution_id, recipe)
    ELSE LET assignments == sols[s].assignments
             f == FormulaPass(res, recipe, assignments) IN
         IF f.raised
         THEN Failure("AttributeError", "'NoneType' object has no attribute 'lower'",
                      optimal_solution_id, recipe)
         ELSE LET st == StepPass(res, recipe, assignments, toks)
                  el == ElementPass(st.recipe, assignments, f.param_mapping) IN
              [result |-> "ok",
               out |-> [xml |-> << Document(recipe_id, optimal_solution_id, f.formula,
                                            st.steps, el.elements) >>,
                        optimal_solution_id |-> optimal_solution_id,
                        message |-> "",
                        requested |-> optimal_solution_id,
                        trace |-> [solution |-> s, formula |-> f.src, steps |-> st.src,
                                   elements |-> el.src]],
               recipe |-> st.recipe]

(***************************************************************************)
(* The draft of the generator (src/Optimization.py lines 314-706).  Its    *)
(* solution lookup, formula pass, step elements and markers are the text   *)
(* of part_000 and use the definitions above.                              *)
(***************************************************************************)
\* lines 523-575 for one assigned element: no capability name in the
\* description, none stored on the record
DraftStepStep(res, i, assignment, toks, acc) ==
    LET pe == acc.recipe[i]
        hits == RealizingHits(res, assignment)
        n == acc.recipe_element_counter
        recipe_element_id ==
            IF hits # {}
            THEN FormatId(n, res[assignment.resource][Min(hits)].realized_by[1])
            ELSE FormatId(n, toks[acc.drawn + 1])
        step_description ==
            Pad3(n) \o ":" \o ResourceShort(assignment.resource) \o "_" \o pe.Description IN
    [steps |-> Append(acc.steps, [id |-> "S" \o Dec(acc.step_counter),
                                  recipe_element_id |-> recipe_element_id,
                                  description |-> step_description]),
     step_counter |-> acc.step_counter + 1,
     recipe_element_counter |-> n + 1,
     recipe |-> [acc.recipe EXCEPT ![i].stash =
                    << [recipe_element_id |-> recipe_element_id,
                        recipe_element_number |-> n] >>],
     drawn |-> IF hits # {} THEN acc.drawn ELSE acc.drawn + 1,
     src |-> Append(acc.src, i)]

RECURSIVE DraftStepLoop(_, _, _, _, _)
DraftStepLoop(res, assignments, toks, i, acc) ==
    IF i > Len(acc.recipe) THEN acc
    ELSE LET a == FindAssignment(assignments, acc.recipe[i].ID) IN
         IF a = 0 THEN DraftStepLoop(res, assignments, toks, i + 1, acc)
         ELSE DraftStepLoop(res, assignments, toks, i + 1, DraftStepStep(res, i, assignments[a], toks, acc))

\* lines 505-582
DraftStepPass(res, recipe, assignments, toks) ==
    LET acc == DraftStepLoop(res, assignments, toks, 1, StepStart(recipe)) IN
    [acc EXCEPT !.steps = Append(acc.steps, [id |-> "S" \o Dec(acc.step_counter),
                                             recipe_element_id |-> "End",
                                             description |-> "End"]),
                !.src = Append(acc.src, 0)]

DraftLinks_as_numbered_from_length(steps) ==
    [k \in 1..(Len(steps) - 1) |-> Link(k, steps[k].id, "Step", "T" \o Dec(k), "Transition")]
        \o [i \in 1..(Len(steps) - 1) |->
                Link(Len(steps) + i, "T" \o Dec(i), "Transition", steps[i + 1].id, "Step")]

\* lines 584-622: the loop of lines 585-602 with k = i+1, then the loop of
\* lines 605-622
DraftLinks(steps) ==
    [k \in 1..(Len(steps) - 1) |-> Link(k, steps[k].id, "Step", "T" \o Dec(k), "Transition")]
        \o [i \in 1..(Len(steps) - 1) |->
                Link(Len(steps) + i - 1, "T" \o Dec(i), "Transition", steps[i + 1].id, "Step")]

\* lines 633-644; steps[i-1] of the 0-based list is the i-th step
DraftTransitions(steps) ==
    [i \in 1..(Len(steps) - 1) |->
        [ID |-> "T" \o Dec(i),
         Condition |-> IF i = 1 THEN "True"
                       ELSE IF i = Len(steps) - 1 THEN "Step " \o steps[i].description \o " is Completed"
                       ELSE "Step " \o steps[i].description \o " is Completed"]]

\* lines 671-697
DraftOperationElement(pe, assignment, param_mapping) ==
    [ID |-> pe.stash[1].recipe_element_id,
     Description |-> ResourceShort(assignment.resource) \o "_" \o pe_short(pe.Description) \o "_Procedure",
     RecipeElementType |-> "Operation",
     ActualEquipmentID |-> ResourceShort(assignment.resource) \o "Instance",
     EquipmentRequirement |-> "Equipment Requirement for the HCs",
     Parameter |-> ParamRefs(pe.Parameters, 1, param_mapping)]

\* lines 660-697
RECURSIVE DraftElementLoop(_, _, _, _, _, _)
DraftElementLoop(recipe, assignments, param_mapping, order, k, acc) ==
    IF k > Len(order) THEN acc
    ELSE LET pe == recipe[order[k]]
             a == FindAssignment(assignments, pe.ID) IN
         IF a = 0 THEN DraftElementLoop(recipe, assignments, param_mapping, order, k + 1, acc)
         ELSE DraftElementLoop(recipe, assignments, param_mapping, order, k + 1,
                [elements |-> Append(acc.elements, DraftOperationElement(pe, assignments[a], param_mapping)),
                 src |-> Append(acc.src, order[k])])

\* lines 646-697
DraftElementPass(recipe, assignments, param_mapping) ==
    DraftElementLoop(recipe, assignments, param_mapping, recipe_elements_sorted(recipe), 1,
                     [elements |-> Markers, src |-> <<0, 0>>])

\* lines 584-644: the children of the ProcedureLogic element in document order
DraftProcedureChildren(steps) ==
    [k \in 1..Len(DraftLinks(steps)) |-> [tag |-> "b2mml:Link", ID |-> DraftLinks(steps)[k].ID]]
        \o [k \in 1..Len(steps) |-> [tag |-> "b2mml:Step", ID |-> StepElements(steps)[k].ID]]
        \o [k \in 1..(Len(steps) - 1) |-> [tag |-> "b2mml:Transition", ID |-> DraftTransitions(steps)[k].ID]]

\* lines 327-367, 506: the element tree, without the two datetime.now() stamps
DraftDocument(recipe_id, optimal_solution_id, formula, steps, elements) ==
    [ListHeader |-> [ID |-> "ListHeadID"],
     Description |-> "This Batch Information includes the Master Recipe based on General Recipe "
                        \o recipe_id \o " and Optimal Solution " \o Dec(optimal_solution_id),
     MasterRecipe |->
        [ID |-> "MasterRecipe_" \o Dec(optimal_solution_id),
         Version |-> "1.0.0",
         Description |-> "Master recipe based on General Recipe " \o recipe_id
                            \o " and optimized solution " \o Dec(optimal_solution_id)
                            \o " using resources from optimization",
         Header |-> [ProductID |-> "StirredHeatedWater", ProductName |-> "Stirred and Heated Water"],
         EquipmentRequirement |->
            [ID |-> "Equipment Requirement for the HCs",
             Constraint |-> [ID |-> "Material constraint", Condition |-> "Material == H2O"],
             Description |-> "Only water is allowed for the stirring and heating process"],
         Formula |-> [Parameter |-> formula],
         ProcedureLogic |-> [Children |-> DraftProcedureChildren(steps),
                             Link |-> DraftLinks(steps), Step |-> StepElements(steps),
                             Transition |-> DraftTransitions(steps)],
         RecipeElement |-> elements]]

\* generate_b2mml_master_recipe of the draft (lines 314-706)
DraftGenerate(res, sols, optimal_solution_id, recipe_id, recipe, toks) ==
    LET s == FindSolution(sols, optimal_solution_id) IN
    IF s = 0
    THEN Failure("ValueError",
                 "Optimal solution " \o Dec(optimal_solution_id) \o " not found in solutions.json",
                 optimal_solution_id, recipe)
    ELSE LET assignments == sols[s].assignments
             f == FormulaPass(res, recipe, assignments) IN
         IF f.raised
         THEN Failure("AttributeError", "'NoneType' object has no attribute 'lower'",
                      optimal_solution_id, recipe)
         ELSE LET st == DraftStepPass(res, recipe, assignments, toks)
                  el == DraftElementPass(st.recipe, assignments, f.param_mapping) IN
              [result |-> "ok",
               out |-> [xml |-> << DraftDocument(recipe_id, optimal_solution_id, f.formula,
                                                 st.steps, el.elements) >>,
                        optimal_solution_id |-> optimal_solution_id,
                        message |-> "",
                        requested |-> optimal_solution_id,
                        trace |-> [solution |-> s, formula |-> f.src, steps |-> st.src,
                                   elements |-> el.src]],
               recipe |-> st.recipe]

(***************************************************************************)
(* Input records                                                           *)
(***************************************************************************)
UnitFoo == "http://example.org/unit/foo"
HC10 == "resource: 2025-04_HC10"
HC20 == "resource: HC20"
HC99 == "HC99"

Cap(name) == [capability_name |-> name]
Prop(name, ref) == [property_name |-> name, propertyRealizedBy |-> ref]
Matched(id, name, unit) == [property_id |-> id, property_name |-> name, property_unit |-> unit]
Detail(name, matched) == [capability_name |-> name, matched_properties |-> matched]

\* HC99 is in no catalog
Catalog ==
    [r \in {HC10, HC20} |->
        IF r = HC10
        THEN << [capability |-> <<Cap("Mixing")>>,
                 properties |-> <<Prop("speed", "rSpeedLow"), Prop("Speed", "rSpeed")>>,
                 realized_by |-> <<"mix_proc", "mix_alt">>],
                [capability |-> <<Cap("Dosing"), Cap("Heating")>>,
                 properties |-> <<Prop("litre", "rLitre"), Prop("Temp", "rTemp")>>,
                 realized_by |-> <<>>] >>
        ELSE << [capability |-> <<Cap("Heating")>>,
                 properties |-> <<Prop("Level", None), Prop("Temp", "rTemp20")>>,
                 realized_by |-> <<>>],
                [capability |-> <<Cap("Heating"), Cap("Mixing")>>,
                 properties |-> <<>>,
                 realized_by |-> <<"heat_proc">>] >>]

Catalogs == {Catalog}

Param(id, key, unit, value) ==
    [ID |-> id, Description |-> "Set " \o key, Key |-> key, UnitOfMeasure |-> unit,
     DataType |-> "xs:double", ValueString |-> value]

P1 == Param("P1", "K1", UnitSecond, ">=60")
P2 == Param("P2", "K2", UnitFoo, "5.5")
PDose == Param("Dosing_Amount001", "K3", UnitLitre, "<=2")

Element(id, description, params) ==
    [ID |-> id, Description |-> description, Parameters |-> params, stash |-> <<>>]

ElementPool ==
    { Element("Mixing001", "Mixing_of_Liquids", <<P1, P2>>),
      Element("Heating001", "Heating_of_liquids", <<P1>>),
      Element("Dosing001", "Dosing", <<PDose, P1>>) }

Assignment(step, resource, caps, details) ==
    [step_id |-> step, resource |-> resource, capabilities |-> caps, capability_details |-> details]

AssignmentPool ==
    { Assignment("Mixing001", HC10, {"Mixing"},
          << Detail("Mixing", <<Matched("K1", "Speed", UnitLitre), Matched("K1", "Speed", UnitSecond)>>),
             Detail("Heating", <<Matched("K2", "TEMP", UnitFoo)>>) >>),
      Assignment("Mixing001", HC99, {"Mixing"}, <<>>),
      Assignment("Heating001", HC20, {"Heating"},
          << Detail("Heating", <<Matched("K1", None, UnitSecond)>>) >>),
      Assignment("Dosing001", HC10, {"Dosing"}, <<>>) }

RECURSIVE SeqsUpTo(_, _)
SeqsUpTo(S, n) ==
    IF n = 0 THEN {<<>>}
    ELSE LET shorter == SeqsUpTo(S, n - 1) IN
         shorter \cup {Append(q, x) : q \in shorter, x \in S}

Recipes == SeqsUpTo(ElementPool, MaxPE)

Solution(id, assignments) ==
    [solution_id |-> id, material_flow_consistent |-> TRUE, assignments |-> assignments]

AltAssignments ==
    << Assignment("Heating001", HC10, {"Heating"},
          << Detail("Heating", <<Matched("K1", "temp", UnitSecond)>>) >>),
       Assignment("Mixing001", HC20, {"Mixing"},
          << Detail("Mixing", <<Matched("K1", "Speed", UnitSecond)>>),
             Detail("Heating", <<Matched("K1", "Level", UnitSecond), Matched("K2", "Temp", UnitLitre)>>),
             Detail("Heating", <<Matched("K1", "Temp", UnitSecond), Matched("K1", "Level", UnitSecond)>>) >>),
       Assignment("Mixing001", HC10, {"Mixing"}, <<>>),
       Assignment("Dosing001", HC20, {"Dosing"},
          << Detail("Heating", <<Matched("K3", "Temp", UnitLitre), Matched("K1", "Temp", UnitSecond)>>) >>) >>

\* the tail that follows the free first solution
SolutionTails ==
    { <<>>,
      << Solution(2, AltAssignments), Solution(2, <<>>) >>,
      << Solution(1, <<>>), Solution(2, AltAssignments) >> }

SolutionLists ==
    {<<Solution(1, x)>> \o t : x \in SeqsUpTo(AssignmentPool, MaxAsg), t \in SolutionTails}

SolutionIds == {1, 2}

\* the injected token source: the n-th draw of a call returns a token of its
\* own
TokenStreams ==
    { [n \in 1..MaxPE |-> "u-" \o Dec(n)] }

\* no file on disk, and SolutionOptimizer.resource_costs as __init__ leaves it
NoFiles == [p \in {} |-> ""]

NoCosts == [r \in {} |-> ""]

NoOut == [xml |-> <<>>, optimal_solution_id |-> 0, message |-> "", requested |-> 0, trace |-> NoTrace]

NoCall == [result |-> "none", out |-> NoOut]

(***************************************************************************)
(* The state machine                                                       *)
(***************************************************************************)
Init ==
    /\ resources \in Catalogs
    /\ solutions \in SolutionLists
    /\ optimization \in SolutionIds
    /\ general_recipe \in {[ID |-> "GR1", ProcessElements |-> r] : r \in Recipes}
    /\ uuid4 \in TokenStreams
    /\ result = "none"
    /\ out = NoOut
    /\ prev = NoCall
    /\ file = <<>>
    /\ uin = ""
    /\ uout = ""
    /\ aas_files = NoFiles
    /\ resource_files = <<>>
    /\ resource_costs = NoCosts

\* generate_b2mml_master_recipe called by a program that holds the records
\* in memory and may call again
Compile ==
    /\ file = <<>>
    /\ \E g \in {Generate(resources, solutions, optimization, general_recipe.ID,
                          general_recipe.ProcessElements, uuid4)} :
        /\ result' = g.result
        /\ out' = g.out
        /\ prev' = [result |-> result, out |-> out]
        /\ general_recipe' = [general_recipe EXCEPT !.ProcessElements = g.recipe]
    /\ UNCHANGED <<resources, solutions, optimization, file, uuid4, uin, uout, optimizer>>

\* main (lines 442-502), the entry point of the script: it runs once in a
\* process of its own, and the document is written only when the call returns
Main ==
    /\ result = "none"
    /\ \E g \in {Generate(resources, solutions, optimization, general_recipe.ID,
                          general_recipe.ProcessElements, uuid4)} :
        /\ result' = g.result
        /\ out' = g.out
        /\ prev' = [result |-> result, out |-> out]
        /\ general_recipe' = [general_recipe EXCEPT !.ProcessElements = g.recipe]
        /\ file' = IF g.result = "ok" THEN g.out.xml ELSE file
    /\ UNCHANGED <<resources, solutions, optimization, uuid4, uin, uout, optimizer>>

\* the optimizer's report names another solution
Select ==
    /\ file = <<>>
    /\ \E id \in SolutionIds :
        /\ id # optimization
        /\ optimization' = id
    /\ UNCHANGED <<resources, solutions, general_recipe, result, out, prev, file, uuid4, uin, uout, optimizer>>

Next == Compile \/ Main \/ Select

Spec == Init /\ [][Next]_vars

(***************************************************************************)
(* The formatters on their own: a parameter with an arbitrary value string *)
(* or unit is put through the code that emits its formula entry            *)
(***************************************************************************)
RECURSIVE StringsUpTo(_, _)
StringsUpTo(alphabet, n) ==
    IF n = 0 THEN {""}
    ELSE LET shorter == StringsUpTo(alphabet, n - 1) IN
         shorter \cup {t \o c : t \in shorter, c \in alphabet}

ValueStrings == StringsUpTo({">", "<", "=", "6"}, MaxStrLen) \cup {">=60", "<=5.5", "60"}

UnitStrings ==
    StringsUpTo({"u", "/", ":"}, MaxStrLen) \cup KnownUnits \cup {UnitFoo}
        \cup {u \o t : u \in KnownUnits, t \in {"/", "s", "/x"}}
        \cup {Drop(u, 1) : u \in KnownUnits}

InitFormat ==
    /\ resources = Catalog
    /\ solutions = <<Solution(1, <<>>)>>
    /\ optimization = 1
    /\ general_recipe = [ID |-> "GR1", ProcessElements |-> <<>>]
    /\ uuid4 \in TokenStreams
    /\ result = "none"
    /\ out = NoOut
    /\ prev = NoCall
    /\ file = <<>>
    /\ uin \in ValueStrings \cup UnitStrings
    /\ uout = ""
    /\ aas_files = NoFiles
    /\ resource_files = <<>>
    /\ resource_costs = NoCosts

HarnessAssignment == Assignment("E", HC99, {}, <<>>)

FormatValue ==
    /\ result = "none"
    /\ uin \in ValueStrings
    /\ uout' = FormulaEntry("001:null", Param("P", "K", UnitSecond, uin), HarnessAssignment).ValueString
    /\ result' = "value"
    /\ UNCHANGED <<resources, solutions, optimization, general_recipe, out, prev, file, uuid4, uin, optimizer>>

MapUnit ==
    /\ result = "none"
    /\ uin \in UnitStrings
    /\ uout' = FormulaEntry("001:null", Param("P", "K", uin, "1"), HarnessAssignment).UnitOfMeasure
    /\ result' = "unit"
    /\ UNCHANGED <<resources, solutions, optimization, general_recipe, out, prev, file, uuid4, uin, optimizer>>

NextFormat == FormatValue \/ MapUnit

SpecFormat == InitFormat /\ [][NextFormat]_vars

(***************************************************************************)
(* The resolver on its own: find_property_realized_by called with the      *)
(* arguments the formula pass can hand it (the property name of a matched  *)
(* descriptor may be None)                                                 *)
(***************************************************************************)
ResourceNames == {HC10, HC20, HC99}

CapabilityNames == {"Mixing", "Heating", "Dosing", "Cooling"}

PropertyNames == {None, "speed", "Speed", "SPEED", "litre", "Litre", "Temp", "TEMP", "Level", "level", "Flow"}

InitFind ==
    /\ resources = Catalog
    /\ solutions = <<Solution(1, <<>>)>>
    /\ optimization = 1
    /\ general_recipe = [ID |-> "GR1", ProcessElements |-> <<>>]
    /\ uuid4 \in TokenStreams
    /\ result = "none"
    /\ out = NoOut
    /\ prev = NoCall
    /\ file = <<>>
    /\ uin \in [resource_name : ResourceNames, capability_name : CapabilityNames,
                 property_name : PropertyNames]
    /\ uout = ""
    /\ aas_files = NoFiles
    /\ resource_files = <<>>
    /\ resource_costs = NoCosts

FindProperty ==
    /\ result = "none"
    /\ \E r \in {find_property_realized_by(resources, uin.resource_name, uin.capability_name,
                                            uin.property_name)} :
           /\ result' = IF r = Raised THEN "AttributeError" ELSE "returned"
           /\ uout' = r
    /\ UNCHANGED <<resources, solutions, optimization, general_recipe, out, prev, file, uuid4, uin, optimizer>>

NextFind == FindProperty

SpecFind == InitFind /\ [][NextFind]_vars

(***************************************************************************)
(* SolutionOptimizer (src/Optimization.py): the cost table.  A cost is a   *)
(* Python float; the model counts it in tenths, and the value texts it is  *)
(* given carry at most one digit after the point.                          *)
(***************************************************************************)
\* an element that find() does not find
Absent == "<absent>"

CostNames == {"EnergyCost", "UseCost", "CO2Footprint"}

\* s.strip(), for blanks
RECURSIVE Strip(_)
Strip(s) ==
    IF Len(s) = 0 THEN s
    ELSE IF Char(s, 1) = " " THEN Strip(Drop(s, 1))
    ELSE IF Char(s, Len(s)) = " " THEN Strip(SubSeq(s, 1, Len(s) - 1))
    ELSE s

AllDigits(s) == \A i \in 1..Len(s) : \E d \in 1..10 : Char(Digits, d) = Char(s, i)

\* int(s) for a string of digits, 0 for the empty string
RECURSIVE DigitsValue(_)
DigitsValue(s) ==
    IF Len(s) = 0 THEN 0
    ELSE 10 * DigitsValue(SubSeq(s, 1, Len(s) - 1))
            + ((CHOOSE d \in 1..10 : Char(Digits, d) = Char(s, Len(s))) - 1)

\* float(text) of line 51 for a decimal literal (an optional sign, digits, an
\* optional point and digits, blanks around it): the value in tenths, or
\* the TypeError of float(None) and the ValueError of any other text
float(text) ==
    IF text = None THEN [raised |-> "TypeError", value |-> 0]
    ELSE LET t == Strip(text)
             signed == Len(t) > 0 /\ Char(t, 1) \in {"-", "+"}
             u == IF signed THEN Drop(t, 1) ELSE t
             dots == Occurrences(u, ".")
             whole == IF dots = {} THEN u ELSE SubSeq(u, 1, Min(dots) - 1)
             frac == IF dots = {} THEN "" ELSE Drop(u, Min(dots)) IN
         IF Cardinality(dots) > 1 \/ ~AllDigits(whole) \/ ~AllDigits(frac) \/ Len(whole) + Len(frac) = 0
         THEN [raised |-> "ValueError", value |-> 0]
         ELSE LET tenths == 10 * DigitsValue(whole)
                                + (IF Len(frac) = 0 THEN 0 ELSE DigitsValue(Char(frac, 1))) IN
              [raised |-> "", value |-> IF signed /\ Char(t, 1) = "-" THEN 0 - tenths ELSE tenths]

\* lines 32-36
CostStart == [c \in CostNames |-> 0]

CostStep_as_raising(prop, acc) ==
    IF prop.idShort # Absent /\ prop.value # Absent /\ prop.idShort \in CostNames
    THEN LET f == float(prop.value) IN
         IF f.raised # "" THEN [acc EXCEPT !.raised = TRUE]
         ELSE [acc EXCEPT !.cost_data[prop.idShort] = f.value]
    ELSE acc

\* lines 44-54 for one property element
CostStep(prop, acc) ==
    IF prop.idShort # Absent /\ prop.value # Absent /\ prop.idShort \in CostNames
    THEN LET f == float(prop.value) IN
         [acc EXCEPT !.cost_data[prop.idShort] = IF f.raised # "" THEN 0 ELSE f.value]
    ELSE acc

\* lines 43-54
RECURSIVE PropertyLoop(_, _, _)
PropertyLoop(properties, k, acc) ==
    IF acc.raised \/ k > Len(properties) THEN acc
    ELSE PropertyLoop(properties, k + 1, CostStep(properties[k], acc))

\* lines 39-54
RECURSIVE SubmodelLoop(_, _, _)
SubmodelLoop(submodels, k, acc) ==
    IF acc.raised \/ k > Len(submodels) THEN acc
    ELSE IF submodels[k].idShort = "OptimizationCost"
         THEN SubmodelLoop(submodels, k + 1, PropertyLoop(submodels[k].properties, 1, acc))
    ELSE SubmodelLoop(submodels, k + 1, acc)

\* lines 25-63: the returned dict in a one-element list, the empty list for
\* None; content is the file as ET.parse finds it
extract_resource_cost_data(content) ==
    IF ~content.well_formed THEN <<>>
    ELSE LET acc == SubmodelLoop(content.submodels, 1, [cost_data |-> CostStart, raised |-> FALSE]) IN
         IF acc.raised THEN <<>> ELSE << acc.cost_data >>

\* os.path.basename(file_path)
basename(file_path) == IF Contains(file_path, "/") THEN LastSegment(file_path) ELSE file_path

\* os.path.splitext(name)[0]: the name up to its last dot, when that dot
\* follows a character that is not a dot
splitext(name) ==
    LET dots == Occurrences(name, ".")
        last == CHOOSE d \in dots : \A e \in dots : e <= d IN
    IF dots = {} THEN name
    ELSE IF \A i \in 1..(last - 1) : Char(name, i) = "." THEN name
    ELSE SubSeq(name, 1, last - 1)

\* lines 67-83
RECURSIVE LoadLoop(_, _, _, _)
LoadLoop(files, paths, k, costs) ==
    IF k > Len(paths) THEN costs
    ELSE IF paths[k] \notin DOMAIN files THEN LoadLoop(files, paths, k + 1, costs)
    ELSE LET resource_name == splitext(basename(paths[k]))
             cost_data == extract_resource_cost_data(files[paths[k]]) IN
         IF Len(cost_data) > 0 /\ DOMAIN cost_data[1] # {}
         THEN LoadLoop(files, paths, k + 1, Store(costs, resource_name, cost_data[1]))
         ELSE LoadLoop(files, paths, k + 1, costs)

\* load_all_resource_costs (lines 65-83)
load_all_resource_costs ==
    /\ result = "none"
    /\ resource_costs' = LoadLoop(aas_files, resource_files, 1, resource_costs)
    /\ result' = "loaded"
    /\ UNCHANGED <<resources, solutions, optimization, general_recipe, out, prev, file, uuid4, uin, uout,
                   aas_files, resource_files>>

\* the content of AAS files
Property(idShort, value) == [idShort |-> idShort, value |-> value]

Submodel(idShort, properties) == [idShort |-> idShort, properties |-> properties]

ValueTexts == {Absent, None, "7", "2.5", "abc", " 3"}

PropertyPool == {Property(n, v) : n \in CostNames \cup {"Other"}, v \in ValueTexts}

\* lists of properties with distinct idShorts
PropertyLists ==
    {q \in SeqsUpTo(PropertyPool, MaxProps) :
        \A i \in 1..Len(q) : \A j \in 1..Len(q) : q[i].idShort = q[j].idShort => i = j}

Nameplate == Submodel("Nameplate", <<Property("EnergyCost", "99"), Property("UseCost", "abc")>>)

\* a file that ET.parse rejects, and one it reads
Malformed == [well_formed |-> FALSE, submodels |-> <<>>]

Xml(submodels) == [well_formed |-> TRUE, submodels |-> submodels]

FreeContents ==
    {Malformed}
        \cup {Xml(<<Submodel("OptimizationCost", q)>>) : q \in PropertyLists}
        \cup {Xml(<<Nameplate, Submodel("OptimizationCost", q), Submodel(Absent, <<Property("UseCost", "8")>>)>>) :
                 q \in PropertyLists}

FixedContent ==
    Xml(<< Submodel("OptimizationCost",
                    <<Property("EnergyCost", "4"), Property("UseCost", "1"), Property("CO2Footprint", "0.5")>>) >>)

FreePath == "2025-04_HC10.xml"
FixedPath == "aas/2025-04_HC20.xml"
MissingPath == "2025-04_HC11.xml"

PathLists == {<<FreePath>>, <<FreePath, FixedPath>>, <<FixedPath, MissingPath, FreePath>>}

InitCost ==
    /\ resources = Catalog
    /\ solutions = <<Solution(1, <<>>)>>
    /\ optimization = 1
    /\ general_recipe = [ID |-> "GR1", ProcessElements |-> <<>>]
    /\ uuid4 \in TokenStreams
    /\ result = "none"
    /\ out = NoOut
    /\ prev = NoCall
    /\ file = <<>>
    /\ uin = ""
    /\ uout = ""
    /\ \E c \in FreeContents :
           aas_files \in {[p \in {FixedPath} |-> FixedContent],
                          [p \in {FreePath, FixedPath} |-> IF p = FreePath THEN c ELSE FixedContent]}
    /\ resource_files \in PathLists
    /\ resource_costs = NoCosts

NextCost == load_all_resource_costs

SpecCost == InitCost /\ [][NextCost]_vars

(***************************************************************************)
(* The two generators on the same files                                    *)
(***************************************************************************)
\* the elements as the recipe file holds them, without what a compile stored
Fresh(recipe) == [i \in 1..Len(recipe) |-> [recipe[i] EXCEPT !.stash = <<>>]]

InitDraft ==
    /\ resources \in Catalogs
    /\ solutions \in SolutionLists
    /\ optimization \in SolutionIds
    /\ general_recipe \in {[ID |-> "GR1", ProcessElements |-> r] : r \in Recipes}
    /\ uuid4 \in TokenStreams
    /\ result = "none"
    /\ out = NoOut
    /\ prev = NoCall
    /\ file = <<>>
    /\ uin = ""
    /\ uout = NoCall
    /\ aas_files = NoFiles
    /\ resource_files = <<>>
    /\ resource_costs = NoCosts

\* main of the draft (src/Optimization.py lines 714-762), a process of its
\* own: load_data_files reads the records from the files, so the call works
\* on the elements as the recipe file holds them, and what it stores on them
\* is gone with the process; uout is what the call gives
DraftMain ==
    /\ uout.result = "none"
    /\ \E g \in {DraftGenerate(resources, solutions, optimization, general_recipe.ID,
                               Fresh(general_recipe.ProcessElements), uuid4)} :
        /\ uout' = [result |-> g.result, out |-> g.out]
        /\ file' = IF g.result = "ok" THEN g.out.xml ELSE file
    /\ UNCHANGED <<resources, solutions, optimization, general_recipe, result, out, prev, uuid4, uin,
                   optimizer>>

NextDraft == DraftMain \/ Main

SpecDraft == InitDraft /\ [][NextDraft]_vars

(***************************************************************************)
(* The optimizer's ranking (src/Optimization.py lines 7-225)               *)
(***************************************************************************)
\* lines 9-13, in tenths
weights == [c \in CostNames |-> IF c = "EnergyCost" THEN 4 ELSE 3]

\* line 96: resource_str.split(': ')[1] if ': ' in resource_str else
\* resource_str
resource_name_of(resource_str) ==
    LET seps == Occurrences(resource_str, ": ") IN
    IF seps = {} THEN resource_str
    ELSE LET rest == Drop(resource_str, Min(seps) + 1)
             more == Occurrences(rest, ": ") IN
         IF more = {} THEN rest ELSE SubSeq(rest, 1, Min(more) - 1)

NoUsage == [r \in {} |-> 0]

UsageStep_as_charging_unknown(costs, assignment, acc) ==
    LET resource_name == resource_name_of(assignment.resource)
        cost_data == IF resource_name \in DOMAIN costs THEN costs[resource_name]
                     ELSE [c \in CostNames |-> 10] IN
    [total_energy_cost |-> acc.total_energy_cost + cost_data["EnergyCost"],
     total_use_cost |-> acc.total_use_cost + cost_data["UseCost"],
     total_co2_footprint |-> acc.total_co2_footprint + cost_data["CO2Footprint"],
     resource_usage |-> Store(acc.resource_usage, resource_name,
                              IF resource_name \in DOMAIN acc.resource_usage
                              THEN acc.resource_usage[resource_name] + 1 ELSE 1)]

\* lines 93-111 for one assignment; costs is self.resource_costs
UsageStep(costs, assignment, acc) ==
    LET resource_name == resource_name_of(assignment.resource) IN
    IF resource_name \in DOMAIN costs
    THEN LET cost_data == costs[resource_name] IN
         [total_energy_cost |-> acc.total_energy_cost + cost_data["EnergyCost"],
          total_use_cost |-> acc.total_use_cost + cost_data["UseCost"],
          total_co2_footprint |-> acc.total_co2_footprint + cost_data["CO2Footprint"],
          resource_usage |-> Store(acc.resource_usage, resource_name,
                                   IF resource_name \in DOMAIN acc.resource_usage
                                   THEN acc.resource_usage[resource_name] + 1 ELSE 1)]
    ELSE acc

RECURSIVE UsageLoop(_, _, _, _)
UsageLoop(costs, assignments, k, acc) ==
    IF k > Len(assignments) THEN acc
    ELSE UsageLoop(costs, assignments, k + 1, UsageStep(costs, assignments[k], acc))

\* lines 85-132; totals in tenths, the weighted values in hundredths
calculate_solution_cost(costs, solution) ==
    LET acc == UsageLoop(costs, solution.assignments, 1,
                         [total_energy_cost |-> 0, total_use_cost |-> 0, total_co2_footprint |-> 0,
                          resource_usage |-> NoUsage]) IN
    [solution_id |-> solution.solution_id,
     total_energy_cost |-> acc.total_energy_cost,
     total_use_cost |-> acc.total_use_cost,
     total_co2_footprint |-> acc.total_co2_footprint,
     composite_score |-> acc.total_energy_cost * weights["EnergyCost"]
                            + acc.total_use_cost * weights["UseCost"]
                            + acc.total_co2_footprint * weights["CO2Footprint"],
     resource_usage |-> acc.resource_usage,
     material_flow_consistent |-> solution.material_flow_consistent,
     weighted_breakdown |-> [energy |-> acc.total_energy_cost * weights["EnergyCost"],
                             use |-> acc.total_use_cost * weights["UseCost"],
                             co2 |-> acc.total_co2_footprint * weights["CO2Footprint"]]]

RECURSIVE InsertByScore_as_consistent_first(_, _)
InsertByScore_as_consistent_first(sorted, x) ==
    IF Len(sorted) = 0 THEN <<x>>
    ELSE LET last == sorted[Len(sorted)] IN
         IF last.composite_score < x.composite_score
            \/ (last.composite_score = x.composite_score
                    /\ (last.material_flow_consistent \/ ~x.material_flow_consistent))
         THEN Append(sorted, x)
         ELSE Append(InsertByScore_as_consistent_first(SubSeq(sorted, 1, Len(sorted) - 1), x), last)

\* list.sort(key=composite_score) is stable: x goes behind every result
\* whose score is not larger
RECURSIVE InsertByScore(_, _)
InsertByScore(sorted, x) ==
    IF Len(sorted) = 0 THEN <<x>>
    ELSE LET last == sorted[Len(sorted)] IN
         IF last.composite_score <= x.composite_score THEN Append(sorted, x)
         ELSE Append(InsertByScore(SubSeq(sorted, 1, Len(sorted) - 1), x), last)

\* lines 168-179: evaluate in file order, then sort
RECURSIVE EvaluateLoop(_, _, _, _)
EvaluateLoop(costs, sols, k, evaluated_solutions) ==
    IF k > Len(sols) THEN evaluated_solutions
    ELSE EvaluateLoop(costs, sols, k + 1,
                      InsertByScore(evaluated_solutions, calculate_solution_cost(costs, sols[k])))

\* find_optimal_solution (lines 183-208): None is the empty list
find_optimal(results) == IF Len(results) = 0 THEN <<>> ELSE <<results[1]>>

NoReport ==
    [weights_used |-> weights, total_solutions_evaluated |-> 0, resource_costs_available |-> {},
     results |-> <<>>, optimal_solution |-> <<>>]

\* optimize_solutions (lines 134-181) as main calls it (line 266); uin is
\* solutions.json as open and json.load find it
optimize_solutions ==
    /\ result = "none"
    /\ \E costs \in {LoadLoop(aas_files, resource_files, 1, resource_costs)} :
        /\ resource_costs' = costs
        /\ uout' = IF DOMAIN costs = {} THEN <<>>
                   ELSE IF ~uin.readable THEN <<>>
                   ELSE EvaluateLoop(costs, uin.solutions, 1, <<>>)
    /\ result' = "optimized"
    /\ UNCHANGED <<resources, solutions, optimization, general_recipe, out, prev, file, uuid4, uin,
                   aas_files, resource_files>>

\* main lines 268-273: find_optimal_solution is reached with a non-empty list
find_optimal_solution ==
    /\ result = "optimized"
    /\ uout # <<>>
    /\ out' = find_optimal(uout)
    /\ result' = "found"
    /\ UNCHANGED <<resources, solutions, optimization, general_recipe, prev, file, uuid4, uin, uout, optimizer>>

\* generate_optimization_report (lines 210-225), main line 276; optimization
\* is what is written to optimization_report.json
generate_optimization_report ==
    /\ result = "found"
    /\ optimization' = [weights_used |-> weights,
                        total_solutions_evaluated |-> Len(uout),
                        resource_costs_available |-> DOMAIN resource_costs,
                        results |-> uout,
                        optimal_solution |-> IF Len(uout) > 0 THEN <<uout[1]>> ELSE <<>>]
    /\ result' = "reported"
    /\ UNCHANGED <<resources, solutions, general_recipe, out, prev, file, uuid4, uin, uout, optimizer>>

\* the resources the ranked solutions name
Priced10 == "resource: 2025-04_HC10"
Priced20 == "resource: 2025-04_HC20"

Uses(resource) == Assignment("Mixing001", resource, {"Mixing"}, <<>>)

\* assignments and flag of a solution of the file
RankedPool ==
    { [assignments |-> << Uses(Priced10) >>, material_flow_consistent |-> FALSE],
      [assignments |-> << Uses(Priced20) >>, material_flow_consistent |-> TRUE],
      [assignments |-> << Uses(Priced10), Uses(HC99) >>, material_flow_consistent |-> TRUE],
      [assignments |-> <<>>, material_flow_consistent |-> TRUE],
      [assignments |-> << Uses(HC20), Uses(Priced20), Uses(Priced20) >>, material_flow_consistent |-> FALSE] }

\* the solutions of a file carry the ids 1, 2, ... in file order
RankedLists ==
    {[k \in 1..Len(q) |-> [solution_id |-> k,
                           material_flow_consistent |-> q[k].material_flow_consistent,
                           assignments |-> q[k].assignments]] : q \in SeqsUpTo(RankedPool, MaxSols)}

SolutionsFiles ==
    {[readable |-> TRUE, solutions |-> q] : q \in RankedLists}
        \cup {[readable |-> FALSE, solutions |-> <<>>]}

RankedContents ==
    { Malformed,
      Xml(<<Submodel("OptimizationCost", <<Property("EnergyCost", "7"), Property("UseCost", "2.5")>>)>>),
      Xml(<<Submodel("OptimizationCost", <<Property("EnergyCost", "1"), Property("CO2Footprint", "abc")>>)>>) }

InitOptimize ==
    /\ resources = Catalog
    /\ solutions = <<Solution(1, <<>>)>>
    /\ optimization = NoReport
    /\ general_recipe = [ID |-> "GR1", ProcessElements |-> <<>>]
    /\ uuid4 \in TokenStreams
    /\ result = "none"
    /\ out = <<>>
    /\ prev = NoCall
    /\ file = <<>>
    /\ uin \in SolutionsFiles
    /\ uout = <<>>
    /\ \E c \in RankedContents :
           aas_files \in {[p \in {FixedPath} |-> FixedContent],
                          [p \in {FreePath, FixedPath} |-> IF p = FreePath THEN c ELSE FixedContent]}
    /\ resource_files \in {<<FreePath>>, <<FreePath, FixedPath>>}
    /\ resource_costs = NoCosts

NextOptimize == optimize_solutions \/ find_optimal_solution \/ generate_optimization_report

SpecOptimize == InitOptimize /\ [][NextOptimize]_vars

(***************************************************************************)
(* What the properties talk about                                          *)
(***************************************************************************)
PE == general_recipe.ProcessElements

MasterRecipe == out.xml[1].MasterRecipe

\* the first solution, in list order, with the id the last call was asked for
ChosenIndex ==
    CHOOSE s \in 1..Len(solutions) :
        /\ solutions[s].solution_id = out.requested
        /\ \A t \in 1..(s - 1) : solutions[t].solution_id # out.requested

Chosen == solutions[ChosenIndex].assignments

HasAssignment(assignments, pe) ==
    \E a \in 1..Len(assignments) : assignments[a].step_id = pe.ID

AssignedPositions == {i \in 1..Len(PE) : HasAssignment(Chosen, PE[i])}

\* the number written before the first ':' of an identifier
DigitValue(c) == (CHOOSE d \in 1..10 : Char(Digits, d) = c) - 1

RECURSIVE ParseNat(_, _)
ParseNat(s, acc) ==
    IF Len(s) = 0 \/ Char(s, 1) = ":" THEN acc
    ELSE ParseNat(Drop(s, 1), 10 * acc + DigitValue(Char(s, 1)))

Ordinal(id) == ParseNat(id, 0)

\* the text after the first ':' of an identifier
RECURSIVE AfterColon(_)
AfterColon(s) ==
    IF Len(s) = 0 THEN ""
    ELSE IF Char(s, 1) = ":" THEN Drop(s, 1)
    ELSE AfterColon(Drop(s, 1))

LexLess(p, q) == p[1] < q[1] \/ (p[1] = q[1] /\ p[2] < q[2])

\* the (element, parameter) positions the formula has to cover
ParameterSlots ==
    UNION {{<<i, j>> : j \in 1..Len(PE[i].Parameters)} : i \in AssignedPositions}

\* C1: a completed compile emits A+2 steps, A+1 transitions and 2(A+1)
\* links, A being the number of process elements with a matching assignment
C1_SectionSizes ==
    result = "ok" =>
        LET A == Cardinality(AssignedPositions) IN
        /\ Len(MasterRecipe.ProcedureLogic.Step) = A + 2
        /\ Len(MasterRecipe.ProcedureLogic.Transition) = A + 1
        /\ Len(MasterRecipe.ProcedureLogic.Link) = 2 * (A + 1)

C1_Witness ==
    /\ result = "ok"
    /\ Len(PE) = 1
    /\ AssignedPositions = {1}
    /\ Len(MasterRecipe.ProcedureLogic.Step) = 3
    /\ Len(MasterRecipe.ProcedureLogic.Transition) = 2
    /\ Len(MasterRecipe.ProcedureLogic.Link) = 4

\* C2: the formula has one entry per parameter of every assigned element and
\* none for the others; the ordinals of the entries are 1..M in emission
\* order, and the entries follow element position, then parameter position
C2_DenseOrdinals ==
    result = "ok" =>
        LET F == MasterRecipe.Formula.Parameter
            src == out.trace.formula IN
        /\ Len(F) = Cardinality(ParameterSlots)
        /\ {src[k] : k \in 1..Len(src)} = ParameterSlots
        /\ \A k \in 1..Len(F) : Ordinal(F[k].ID) = k
        /\ \A k \in 1..Len(F) : \A l \in (k + 1)..Len(F) : LexLess(src[k], src[l])

C2_Witness ==
    /\ result = "ok"
    /\ Len(PE) = 2
    /\ AssignedPositions = {2}
    /\ Len(PE[1].Parameters) > 0
    /\ Len(MasterRecipe.Formula.Parameter) = 2
    /\ Ordinal(MasterRecipe.Formula.Parameter[2].ID) = 2

\* C3: inside the operation recipe element of every assigned element e, the
\* reference emitted for parameter p is the identifier of the formula entry
\* allocated when p of e was processed (parameter IDs need not be distinct)
C3_ReferencesMatchFormula ==
    result = "ok" =>
        LET F == MasterRecipe.Formula.Parameter
            R == MasterRecipe.RecipeElement IN
        \A k \in 1..Len(R) :
            out.trace.elements[k] # 0 =>
                LET e == out.trace.elements[k] IN
                /\ Len(R[k].Parameter) = Len(PE[e].Parameters)
                /\ \A j \in 1..Len(R[k].Parameter) :
                       \E t \in 1..Len(F) :
                           /\ out.trace.formula[t] = <<e, j>>
                           /\ R[k].Parameter[j].ID = F[t].ID

\* C4: an element without a matching assignment is in no step, no operation
\* recipe element and no formula entry, and the call ends as it does on the
\* recipe without that element, with the same document
C4_UnassignedElementsVanish ==
    [][ optimization' = optimization =>
          LET before == general_recipe.ProcessElements
              s == FindSolution(solutions, optimization)
              kept == SelectSeq(before, LAMBDA pe : s # 0 /\ HasAssignment(solutions[s].assignments, pe))
              g == Generate(resources, solutions, optimization, general_recipe.ID, kept, uuid4) IN
          /\ result' = g.result
          /\ out'.xml = g.out.xml
          /\ result' = "ok" =>
                \A i \in 1..Len(before) :
                    ~HasAssignment(solutions[s].assignments, before[i]) =>
                        /\ \A k \in 1..Len(out'.trace.formula) : out'.trace.formula[k][1] # i
                        /\ \A k \in 1..Len(out'.trace.steps) : out'.trace.steps[k] # i
                        /\ \A k \in 1..Len(out'.trace.elements) : out'.trace.elements[k] # i
      ]_vars

C4_Witness ==
    /\ result = "ok"
    /\ Len(PE) = 2
    /\ AssignedPositions = {1}
    /\ Len(MasterRecipe.ProcedureLogic.Step) = 3
    /\ Len(MasterRecipe.RecipeElement) = 3

IdText(id) == CASE id = 1 -> "1" [] id = 2 -> "2" [] id = 3 -> "3"

\* C5: when no solution has the selected id the call raises an error naming
\* the id, no document is returned and none is written; otherwise the first
\* solution with that id, in list order, is the one compiled
C5_SolutionLookup ==
    result \in {"ok", "ValueError", "AttributeError"} =>
        IF \A s \in 1..Len(solutions) : solutions[s].solution_id # out.requested
        THEN /\ result = "ValueError"
             /\ out.message = "Optimal solution " \o IdText(out.requested) \o " not found in solutions.json"
             /\ out.xml = <<>>
             /\ file = <<>>
        ELSE /\ result # "ValueError"
             /\ result = "ok" =>
                    /\ out.trace.solution = ChosenIndex
                    /\ out.xml = Generate(resources, <<solutions[ChosenIndex]>>, out.requested,
                                          general_recipe.ID, Fresh(PE), uuid4).out.xml

C5_Witness ==
    /\ result = "ok"
    /\ Cardinality({s \in 1..Len(solutions) : solutions[s].solution_id = out.requested}) = 2
    /\ \E s \in 1..Len(solutions) :
           /\ solutions[s].solution_id = out.requested
           /\ solutions[s].assignments # Chosen
    /\ Len(MasterRecipe.ProcedureLogic.Step) = 3

\* the resolution of parameter j of element i cannot find a reference: the
\* resource is not in the catalog, no capability record is accepted, no
\* property matches, or no descriptor has the key and the unit
LowerMatch(capability_name, property_name, resource) ==
    \E k \in 1..Len(resources[resource]) :
        /\ CapMatch(resources[resource][k], capability_name)
        /\ \E q \in 1..Len(resources[resource][k].properties) :
               Lower(resources[resource][k].properties[q].property_name) = Lower(property_name)

NotFoundCause(pe, param, assignment) ==
    \/ assignment.resource \notin DOMAIN resources
    \/ IF pe.ID = "Dosing001" /\ param.ID = "Dosing_Amount001"
       THEN ~LowerMatch("Dosing", "Litre", assignment.resource)
       ELSE \A d \in 1..Len(assignment.capability_details) :
               LET cdt == assignment.capability_details[d] IN
               \A m \in 1..Len(cdt.matched_properties) :
                   LET mp == cdt.matched_properties[m] IN
                   (mp.property_id = param.Key /\ mp.property_unit = param.UnitOfMeasure) =>
                       (mp.property_name # None
                            /\ ~LowerMatch(cdt.capability_name, mp.property_name, assignment.resource))

FirstAssignment(pe) ==
    Chosen[CHOOSE a \in 1..Len(Chosen) :
               /\ Chosen[a].step_id = pe.ID
               /\ \A b \in 1..(a - 1) : Chosen[b].step_id # pe.ID]

\* C6: a parameter whose resolution finds nothing still takes the next
\* ordinal and gets the entry '<ordinal>:null', and the parameter after it
\* takes the following ordinal
C6_NullMarker ==
    result = "ok" =>
        LET F == MasterRecipe.Formula.Parameter
            src == out.trace.formula IN
        \A k \in 1..Len(F) :
            LET pe == PE[src[k][1]]
                param == pe.Parameters[src[k][2]] IN
            NotFoundCause(pe, param, FirstAssignment(pe)) =>
                /\ Ordinal(F[k].ID) = k
                /\ AfterColon(F[k].ID) = "null"
                /\ Len(F) = Cardinality(ParameterSlots)
                /\ k < Len(F) => Ordinal(F[k + 1].ID) = k + 1

C6_Witness ==
    /\ result = "ok"
    /\ Len(MasterRecipe.Formula.Parameter) = 3
    /\ LET pe == PE[out.trace.formula[2][1]] IN
           NotFoundCause(pe, pe.Parameters[out.trace.formula[2][2]], FirstAssignment(pe))
    /\ MasterRecipe.Formula.Parameter[2].ID = "002:null"
    /\ AfterColon(MasterRecipe.Formula.Parameter[3].ID) # "null"

\* C7: whenever the selected id resolves to a solution, the call returns a
\* complete document, whatever the gaps in the assignments and the catalog
C7_AlwaysADocument ==
    (result # "none" /\ \E s \in 1..Len(solutions) : solutions[s].solution_id = out.requested) =>
        /\ result = "ok"
        /\ Len(out.xml) = 1

\* C8: two calls in a row with the same selection, on the same records and
\* with the same tokens, return the same document
C8_SameDocumentTwice ==
    (result = "ok" /\ prev.result = "ok" /\ prev.out.requested = out.requested) =>
        prev.out.xml = out.xml

C8_Witness ==
    /\ result = "ok"
    /\ prev.result = "ok"
    /\ prev.out.requested = out.requested
    /\ Len(MasterRecipe.RecipeElement) = 4
    /\ \E k \in 3..4 : AfterColon(MasterRecipe.RecipeElement[k].ID) = uuid4[1]

\* C9: the emitted ValueString is the input without its first two characters
\* when the input starts with >= or <=, and the input itself otherwise
C9_OperatorPrefix ==
    result = "value" =>
        IF Len(uin) >= 2 /\ SubSeq(uin, 1, 2) \in {">=", "<="}
        THEN /\ SubSeq(uin, 1, 2) \o uout = uin
             /\ Len(uout) = Len(uin) - 2
        ELSE uout = uin

C9_Witness ==
    /\ result = "value"
    /\ uin = ">=<6"
    /\ uout = "<6"

\* C10: map_unit gives the fixed label of a known unit URI; of any other
\* URI it gives the text after the last '/', or the URI when it has no '/',
\* which is in both cases a suffix of the URI
C10_UnitLabel ==
    result = "unit" =>
        /\ uin = "http://si-digital-framework.org/SI/units/second" => uout = "Sekunde"
        /\ uin = "http://si-digital-framework.org/SI/units/litre" => uout = "Liter"
        /\ uin = "http://si-digital-framework.org/SI/units/degreeCelsius" => uout = "Grad Celsius"
        /\ uin = "http://qudt.org/vocab/unit/REV-PER-MIN" => uout = "Umdrehungen pro Minute"
        /\ uin = "http://qudt.org/vocab/unit/PERCENT" => uout = "Prozent"
        /\ uin = "http://qudt.org/vocab/unit/CYC-PER-SEC" => uout = "Zyklen pro Sekunde"
        /\ uin = "http://example.org/unit/foo" => uout = "foo"
        /\ uin \notin KnownUnits =>
              /\ IsSuffix(uout, uin)
              /\ ~Contains(uout, "/")
              /\ IF Contains(uin, "/")
                 THEN Char(uin, Len(uin) - Len(uout)) = "/"
                 ELSE uout = uin

C10_Witness ==
    /\ result = "unit"
    /\ uin = "http://example.org/unit/foo"
    /\ uout = "foo"

\* the positions of the recipe elements of a type
ElementsOfType(type) ==
    {k \in 1..Len(MasterRecipe.RecipeElement) : MasterRecipe.RecipeElement[k].RecipeElementType = type}

\* the positions of the children of the procedure logic with a tag
ChildrenTagged(tag) ==
    {k \in 1..Len(MasterRecipe.ProcedureLogic.Children) : MasterRecipe.ProcedureLogic.Children[k].tag = tag}

\* in the procedure logic every Link comes before every Step and every Step
\* before every Transition, and the three lists are the children in order
LinksStepsTransitions ==
    LET PL == MasterRecipe.ProcedureLogic IN
    /\ \A l \in ChildrenTagged("b2mml:Link") : \A s \in ChildrenTagged("b2mml:Step") : l < s
    /\ \A s \in ChildrenTagged("b2mml:Step") : \A t \in ChildrenTagged("b2mml:Transition") : s < t
    /\ Len(PL.Children) = Len(PL.Link) + Len(PL.Step) + Len(PL.Transition)
    /\ \A k \in 1..Len(PL.Link) : PL.Children[k] = [tag |-> "b2mml:Link", ID |-> PL.Link[k].ID]
    /\ \A k \in 1..Len(PL.Step) :
           PL.Children[Len(PL.Link) + k] = [tag |-> "b2mml:Step", ID |-> PL.Step[k].ID]
    /\ \A k \in 1..Len(PL.Transition) :
           PL.Children[Len(PL.Link) + Len(PL.Step) + k] = [tag |-> "b2mml:Transition", ID |-> PL.Transition[k].ID]

\* C11 as stated: the Begin element precedes every operation recipe element
\* and the End element follows every one of them, and in the procedure logic
\* all Links precede all Steps, which precede all Transitions
C11_MarkersEnclose ==
    result = "ok" =>
        /\ \A b \in ElementsOfType("Begin") : \A o \in ElementsOfType("Operation") : b < o
        /\ \A e \in ElementsOfType("End") : \A o \in ElementsOfType("Operation") : o < e
        /\ LinksStepsTransitions

\* C11 as amended: the recipe elements are the Begin element 'Init', then the
\* End element 'End', then the operation recipe elements in ascending
\* ordinal; in the procedure logic all Links precede all Steps, which precede
\* all Transitions
C11_MarkersThenOperations ==
    result = "ok" =>
        LET R == MasterRecipe.RecipeElement IN
        /\ Len(R) >= 2
        /\ R[1] = [ID |-> "Init", RecipeElementType |-> "Begin"]
        /\ R[2] = [ID |-> "End", RecipeElementType |-> "End"]
        /\ \A k \in 3..Len(R) :
               /\ R[k].RecipeElementType = "Operation"
               /\ Ordinal(R[k].ID) = k - 2
        /\ LinksStepsTransitions

C11_Witness ==
    /\ result = "ok"
    /\ Len(MasterRecipe.RecipeElement) = 4
    /\ MasterRecipe.RecipeElement[2].ID = "End"
    /\ MasterRecipe.RecipeElement[4].RecipeElementType = "Operation"
    /\ Len(MasterRecipe.ProcedureLogic.Children) = 13

\* C12: a call leaves the general recipe with its process elements, the
\* solutions, the selection and the catalog exactly as they were
C12_InputsUnchanged ==
    [][ optimization' = optimization =>
          /\ general_recipe' = general_recipe
          /\ solutions' = solutions
          /\ resources' = resources
      ]_vars

\* C13: every call ends as it does on the recipe as the file holds it,
\* whatever earlier calls stored on the records; its parameter ordinals and
\* its recipe-element ordinals start at 1, every parameter reference it emits
\* is an identifier of its own formula, and every operation element it emits
\* belongs to an element its own solution assigns
C13_AllocatorIsLocal ==
    result \in {"ok", "ValueError", "AttributeError"} =>
        LET g == Generate(resources, solutions, out.requested, general_recipe.ID, Fresh(PE), uuid4) IN
        /\ result = g.result
        /\ out.xml = g.out.xml
        /\ result = "ok" =>
               LET F == MasterRecipe.Formula.Parameter
                   S == MasterRecipe.ProcedureLogic.Step
                   R == MasterRecipe.RecipeElement IN
               /\ Len(F) > 0 => Ordinal(F[1].ID) = 1
               /\ Len(S) > 2 => Ordinal(S[2].RecipeElementID) = 1
               /\ \A k \in 1..Len(R) :
                      R[k].RecipeElementType = "Operation" =>
                          /\ out.trace.elements[k] \in AssignedPositions
                          /\ \A j \in 1..Len(R[k].Parameter) :
                                 \E t \in 1..Len(F) : F[t].ID = R[k].Parameter[j].ID

C13_Witness ==
    /\ result = "ok"
    /\ prev.result = "ok"
    /\ prev.out.requested # out.requested
    /\ \E i \in 1..Len(PE) : Len(PE[i].stash) > 0 /\ i \notin AssignedPositions
    /\ Len(MasterRecipe.RecipeElement) = 3
    /\ Len(MasterRecipe.Formula.Parameter) > 0
    /\ Ordinal(MasterRecipe.RecipeElement[3].ID) = 1

\* the number, in tenths, that a value text of the AAS files spells
NumberOf ==
    [t \in {"7", "2.5", " 3", "4", "1", "0.5", "99", "8"} |->
        CASE t = "7" -> 70 [] t = "2.5" -> 25 [] t = " 3" -> 30 [] t = "4" -> 40
          [] t = "1" -> 10 [] t = "0.5" -> 5 [] t = "99" -> 990 [] t = "8" -> 80]

\* the resource name a path stands for
ResourceOf(path) ==
    CASE path = "2025-04_HC10.xml" -> "2025-04_HC10"
      [] path = "aas/2025-04_HC20.xml" -> "2025-04_HC20"
      [] path = "2025-04_HC11.xml" -> "2025-04_HC11"

\* the properties of the OptimizationCost submodels of a file
CostProperties(content) ==
    {pr \in UNION {{content.submodels[m].properties[k] : k \in 1..Len(content.submodels[m].properties)} :
                     m \in {n \in 1..Len(content.submodels) : content.submodels[n].idShort = "OptimizationCost"}} :
        pr.idShort \in CostNames}

NumText(n) == <<"1", "2", "3", "4", "5", "6", "7", "8", "9", "10", "11", "12", "13", "14", "15", "16">>[n]

C16_GuardNamesPrecedingStep ==
    result = "ok" =>
        LET L == MasterRecipe.ProcedureLogic.Link
            S == MasterRecipe.ProcedureLogic.Step
            T == MasterRecipe.ProcedureLogic.Transition IN
        \A i \in 2..Len(T) :
            /\ T[i].ID = "T" \o NumText(i)
            /\ \E k \in 1..Len(L) :
                   L[k].FromIDValue = S[i].ID /\ L[k].FromType = "Step" /\ L[k].ToIDValue = T[i].ID
            /\ \E k \in 1..Len(L) :
                   L[k].FromIDValue = T[i].ID /\ L[k].ToIDValue = S[i + 1].ID /\ L[k].ToType = "Step"
            /\ T[i].Condition = "Step " \o S[i].Description \o " is Completed"
            /\ T[i].Condition # "Step " \o S[i + 1].Description \o " is Completed"

C16_Witness ==
    /\ result = "ok"
    /\ Len(MasterRecipe.ProcedureLogic.Transition) = 3
    /\ StartsWith(MasterRecipe.ProcedureLogic.Transition[2].Condition, "Step 001:")
    /\ StartsWith(MasterRecipe.ProcedureLogic.Transition[3].Condition, "Step 002:")
    /\ MasterRecipe.ProcedureLogic.Step[4].Description = "End"

\* C17 as stated: the condition of transition 1 is the text "true",
\* whatever the recipe and the solution
C17_FirstGuardLowercase ==
    result = "ok" =>
        /\ MasterRecipe.ProcedureLogic.Transition[1].ID = "T1"
        /\ MasterRecipe.ProcedureLogic.Transition[1].Condition = "true"

\* C17 as amended: the condition of transition 1 is the text "True" (capital
\* T), whatever the recipe and the solution, also when no process element is
\* assigned and transition 1 leads to End
C17_FirstGuardTrue ==
    result = "ok" =>
        LET L == MasterRecipe.ProcedureLogic.Link
            T == MasterRecipe.ProcedureLogic.Transition IN
        /\ Len(T) >= 1
        /\ T[1].ID = "T1"
        /\ T[1].Condition = "True"
        /\ L[1].FromIDValue = "S1" /\ L[1].ToIDValue = "T1"
        /\ L[2].FromIDValue = "T1" /\ L[2].ToIDValue = "S2"

C17_Witness ==
    /\ result = "ok"
    /\ Len(PE) > 0
    /\ AssignedPositions = {}
    /\ Len(MasterRecipe.ProcedureLogic.Transition) = 1
    /\ MasterRecipe.ProcedureLogic.Transition[1].Condition = "True"
    /\ MasterRecipe.ProcedureLogic.Step[2].RecipeElementID = "End"

\* the records of the resource that the scan considers and that hold a
\* property whose name matches, exactly or without regard to case
Considered(resource_name, capability_name) ==
    {k \in 1..Len(resources[resource_name]) :
        \E c \in 1..Len(resources[resource_name][k].capability) :
            resources[resource_name][k].capability[c].capability_name = capability_name}

SameName(a, b) == a # None /\ b # None /\ Lower(a) = Lower(b)

Matching(resource_name, capability_name, property_name) ==
    {k \in Considered(resource_name, capability_name) :
        \E q \in 1..Len(resources[resource_name][k].properties) :
            SameName(resources[resource_name][k].properties[q].property_name, property_name)}

\* the reference of the first property of the record with exactly the name
\* when there is one, of the first with the name up to case otherwise
ReferenceIn(props, property_name) ==
    LET exact == {q \in 1..Len(props) : props[q].property_name = property_name}
        loose == {q \in 1..Len(props) : SameName(props[q].property_name, property_name)} IN
    IF exact # {} THEN props[CHOOSE q \in exact : \A r \in exact : q <= r].propertyRealizedBy
    ELSE props[CHOOSE q \in loose : \A r \in loose : q <= r].propertyRealizedBy

\* C18: the call returns; it returns not-found when the resource is not in
\* the catalog or no considered record has a property whose name matches,
\* and otherwise the reference of the first considered record, in catalog
\* order, with a matching property, an exact match in that record taken
\* before a case-insensitive one
C18_ScanOrder ==
    result \in {"returned", "AttributeError"} =>
        /\ result = "returned"
        /\ IF uin.resource_name \notin DOMAIN resources
              \/ Matching(uin.resource_name, uin.capability_name, uin.property_name) = {}
           THEN uout = None
           ELSE LET hits == Matching(uin.resource_name, uin.capability_name, uin.property_name)
                    k == CHOOSE x \in hits : \A y \in hits : x <= y IN
                uout = ReferenceIn(resources[uin.resource_name][k].properties, uin.property_name)

\* the catalog records of the assignment's resource that share a capability
\* name with the assignment and name what realizes them
Realizing(assignment) ==
    IF assignment.resource \in DOMAIN resources
    THEN {x \in 1..Len(resources[assignment.resource]) :
            /\ resources[assignment.resource][x].realized_by # <<>>
            /\ {resources[assignment.resource][x].capability[c].capability_name :
                    c \in 1..Len(resources[assignment.resource][x].capability)}
                  \cap assignment.capabilities # {}}
    ELSE {}

\* some matched-property descriptor of a chosen assignment has no name (C7)
NamelessDescriptor ==
    \E a \in 1..Len(Chosen) :
        \E d \in 1..Len(Chosen[a].capability_details) :
            \E m \in 1..Len(Chosen[a].capability_details[d].matched_properties) :
                Chosen[a].capability_details[d].matched_properties[m].property_name = None

\* C19: the identifier of the k-th operation recipe element is k in three
\* digits, ':' and the first realized_by entry of the first catalog record
\* of the assigned resource that shares a capability name with the
\* assignment and has a realized_by entry; without such a record it is k,
\* ':' and a token of its own, and the call still returns its document
C19_ElementIdentifier ==
    /\ (result \in {"ok", "AttributeError"} /\ ~NamelessDescriptor) => result = "ok"
    /\ result = "ok" =>
           LET R == MasterRecipe.RecipeElement
               S == MasterRecipe.ProcedureLogic.Step IN
           \A k \in 1..(Len(R) - 2) :
               LET asg == FirstAssignment(PE[out.trace.elements[k + 2]])
                   recs == Realizing(asg) IN
               /\ S[k + 1].RecipeElementID = R[k + 2].ID
               /\ IF recs # {}
                  THEN R[k + 2].ID = "00" \o NumText(k) \o ":"
                          \o resources[asg.resource][CHOOSE x \in recs : \A y \in recs : x <= y].realized_by[1]
                  ELSE /\ \E n \in DOMAIN uuid4 : R[k + 2].ID = "00" \o NumText(k) \o ":" \o uuid4[n]
                       /\ \A l \in 1..(Len(R) - 2) :
                              (l # k /\ AfterColon(R[l + 2].ID) = AfterColon(R[k + 2].ID)) =>
                                  Realizing(FirstAssignment(PE[out.trace.elements[l + 2]])) # {}

C19_Witness ==
    /\ result = "ok"
    /\ Len(MasterRecipe.RecipeElement) = 4
    /\ MasterRecipe.RecipeElement[3].ID = "001:heat_proc"
    /\ MasterRecipe.RecipeElement[4].ID = "002:u-1"
    /\ FirstAssignment(PE[2]).resource \in DOMAIN resources

\* the place of an assigned position among the assigned positions
Rank(i) == Cardinality({j \in AssignedPositions : j <= i})

\* C20: the k-th assigned process element, in recipe order, gets the
\* recipe-element ordinal k and the step S(k+1); Init is S1 and End is
\* S(A+2); the ordinals are 1..A whatever the number of parameters, and
\* steps and operation recipe elements are in recipe order
C20_RecipeOrder ==
    result = "ok" =>
        LET S == MasterRecipe.ProcedureLogic.Step
            R == MasterRecipe.RecipeElement
            A == Cardinality(AssignedPositions) IN
        /\ Len(S) = A + 2
        /\ S[1].ID = "S1" /\ S[1].RecipeElementID = "Init"
        /\ S[A + 2].ID = "S" \o NumText(A + 2) /\ S[A + 2].RecipeElementID = "End"
        /\ Len(R) = A + 2
        /\ \A i \in AssignedPositions :
               LET k == Rank(i) IN
               /\ out.trace.steps[k + 1] = i
               /\ S[k + 1].ID = "S" \o NumText(k + 1)
               /\ Ordinal(S[k + 1].RecipeElementID) = k
               /\ Ordinal(S[k + 1].Description) = k
               /\ out.trace.elements[k + 2] = i
               /\ Ordinal(R[k + 2].ID) = k
               /\ R[k + 2].ID = S[k + 1].RecipeElementID
        /\ \A a \in AssignedPositions : \A b \in AssignedPositions :
               a < b =>
                   /\ \E x \in 1..Len(S) : \E y \in 1..Len(S) :
                          x < y /\ out.trace.steps[x] = a /\ out.trace.steps[y] = b
                   /\ \E x \in 1..Len(R) : \E y \in 1..Len(R) :
                          x < y /\ out.trace.elements[x] = a /\ out.trace.elements[y] = b

C20_Witness ==
    /\ result = "ok"
    /\ AssignedPositions = {1, 2}
    /\ Len(MasterRecipe.Formula.Parameter) = 3
    /\ Ordinal(MasterRecipe.Formula.Parameter[3].ID) = 3
    /\ MasterRecipe.ProcedureLogic.Step[3].ID = "S3"
    /\ Ordinal(MasterRecipe.ProcedureLogic.Step[3].RecipeElementID) = 2
    /\ Ordinal(MasterRecipe.RecipeElement[4].ID) = 2
    /\ out.trace.elements = <<0, 0, 1, 2>>


\* the typed node a link leaves and the typed node it enters
LinkFrom(link) == <<link.FromType, link.FromIDValue>>

LinkTo(link) == <<link.ToType, link.ToIDValue>>

\* the nodes met when the links are followed from node n, at most fuel links
\* far, taking the first link that leaves each node
RECURSIVE Walk(_, _, _)
Walk(L, n, fuel) ==
    LET leaving == {k \in 1..Len(L) : LinkFrom(L[k]) = n} IN
    IF fuel = 0 \/ leaving = {} THEN <<n>>
    ELSE <<n>> \o Walk(L, LinkTo(L[CHOOSE k \in leaving : \A l \in leaving : k <= l]), fuel - 1)

\* C21: the links form one simple chain S1 -> T1 -> S2 -> ... -> T(N-1) ->
\* SN: every link endpoint is an emitted step or transition, nothing enters
\* Init and nothing leaves End, every other step and every transition has
\* exactly one link in and one link out, and following the links from Init
\* meets every step and transition once, in order, and stops at End
C21_SimpleChain ==
    result = "ok" =>
        LET L == MasterRecipe.ProcedureLogic.Link
            S == MasterRecipe.ProcedureLogic.Step
            T == MasterRecipe.ProcedureLogic.Transition
            N == Len(S)
            Nodes == {<<"Step", S[k].ID>> : k \in 1..N}
                        \cup {<<"Transition", T[k].ID>> : k \in 1..Len(T)}
            In(n) == {k \in 1..Len(L) : LinkTo(L[k]) = n}
            Out(n) == {k \in 1..Len(L) : LinkFrom(L[k]) = n}
            first == <<"Step", S[1].ID>>
            last == <<"Step", S[N].ID>>
            walk == Walk(L, first, 2 * N) IN
        /\ S[1].RecipeElementID = "Init" /\ S[N].RecipeElementID = "End"
        /\ Cardinality(Nodes) = N + Len(T)
        /\ \A k \in 1..Len(L) : LinkFrom(L[k]) \in Nodes /\ LinkTo(L[k]) \in Nodes
        /\ In(first) = {} /\ Cardinality(Out(first)) = 1
        /\ Out(last) = {} /\ Cardinality(In(last)) = 1
        /\ \A n \in Nodes \ {first, last} : Cardinality(In(n)) = 1 /\ Cardinality(Out(n)) = 1
        /\ Len(walk) = 2 * N - 1
        /\ \A k \in 1..N : walk[2 * k - 1] = <<"Step", S[k].ID>>
        /\ \A k \in 1..(N - 1) : walk[2 * k] = <<"Transition", T[k].ID>>
        /\ {walk[k] : k \in 1..Len(walk)} = Nodes

C21_Witness ==
    /\ result = "ok"
    /\ Len(MasterRecipe.ProcedureLogic.Step) = 4
    /\ Walk(MasterRecipe.ProcedureLogic.Link, <<"Step", "S1">>, 8) =
          << <<"Step", "S1">>, <<"Transition", "T1">>, <<"Step", "S2">>, <<"Transition", "T2">>,
             <<"Step", "S3">>, <<"Transition", "T3">>, <<"Step", "S4">> >>


\* C22: the RecipeElementID of every step is the ID of exactly one recipe
\* element: of the Begin element for S1, of the End element for the last
\* step, and for an operation step of the operation element of the same
\* process element; every operation recipe element is referenced by exactly
\* one step, and the operation recipe-element IDs are pairwise distinct,
\* also when they are built from drawn tokens
C22_CrossReferences ==
    result = "ok" =>
        LET S == MasterRecipe.ProcedureLogic.Step
            R == MasterRecipe.RecipeElement
            N == Len(S)
            Named(k) == {e \in 1..Len(R) : R[e].ID = S[k].RecipeElementID}
            Naming(e) == {k \in 1..N : S[k].RecipeElementID = R[e].ID}
            Operations == {e \in 1..Len(R) : R[e].RecipeElementType = "Operation"} IN
        /\ \A k \in 1..N : Cardinality(Named(k)) = 1
        /\ \A e \in Named(1) : R[e].ID = "Init" /\ R[e].RecipeElementType = "Begin"
        /\ \A e \in Named(N) : R[e].ID = "End" /\ R[e].RecipeElementType = "End"
        /\ \A k \in 2..(N - 1) : \A e \in Named(k) :
               /\ R[e].RecipeElementType = "Operation"
               /\ out.trace.steps[k] # 0
               /\ out.trace.elements[e] = out.trace.steps[k]
        /\ \A e \in Operations : Cardinality(Naming(e)) = 1
        /\ Cardinality(Operations) = N - 2
        /\ \A e \in Operations : \A f \in Operations : e # f => R[e].ID # R[f].ID

C22_Witness ==
    /\ result = "ok"
    /\ Len(MasterRecipe.ProcedureLogic.Step) = 4
    /\ PE[1].ID = PE[2].ID
    /\ MasterRecipe.RecipeElement[3].ID = "001:u-1"
    /\ MasterRecipe.RecipeElement[4].ID = "002:u-2"
    /\ MasterRecipe.ProcedureLogic.Step[3].RecipeElementID = "002:u-2"


\* the short name of a resource, as the documents spell it
ShortName(resource) ==
    CASE resource = "resource: 2025-04_HC10" -> "HC10"
      [] resource = "resource: HC20" -> "HC20"
      [] resource = "HC99" -> "HC99"

\* C23: of several assignments with the same step_id only the first in list
\* order is used, by all three passes: the step description, the
\* descriptions of the element's formula parameters and the equipment id of
\* its recipe element name the resource of that first assignment
C23_OneAssignmentPerElement ==
    result = "ok" =>
        LET S == MasterRecipe.ProcedureLogic.Step
            R == MasterRecipe.RecipeElement
            F == MasterRecipe.Formula.Parameter IN
        \A i \in AssignedPositions :
            LET short == ShortName(FirstAssignment(PE[i]).resource) IN
            /\ \E k \in 1..Len(S) : out.trace.steps[k] = i
            /\ \E e \in 1..Len(R) : out.trace.elements[e] = i
            /\ \A k \in 1..Len(S) :
                   out.trace.steps[k] = i =>
                       StartsWith(AfterColon(S[k].Description), short \o "_")
            /\ \A t \in 1..Len(F) :
                   out.trace.formula[t][1] = i => StartsWith(F[t].Description, short \o "_")
            /\ \A e \in 1..Len(R) :
                   out.trace.elements[e] = i =>
                       /\ R[e].ActualEquipmentID = short \o "Instance"
                       /\ StartsWith(R[e].Description, short \o "_")

C23_Witness ==
    /\ result = "ok"
    /\ \E i \in AssignedPositions :
           /\ Cardinality({a \in 1..Len(Chosen) : Chosen[a].step_id = PE[i].ID}) = 2
           /\ \E a \in 1..Len(Chosen) :
                  Chosen[a].step_id = PE[i].ID /\ Chosen[a].resource # FirstAssignment(PE[i]).resource
           /\ Len(PE[i].Parameters) = 2
           /\ \E e \in 1..Len(MasterRecipe.RecipeElement) :
                  /\ out.trace.elements[e] = i
                  /\ MasterRecipe.RecipeElement[e].ActualEquipmentID = "HC20Instance"


\* what a lookup of the property on the resource gives: nothing when the
\* resource is not in the catalog or no considered record has the property
Reference(resource_name, capability_name, property_name) ==
    IF resource_name \notin DOMAIN resources THEN None
    ELSE LET hits == Matching(resource_name, capability_name, property_name) IN
         IF hits = {} THEN None
         ELSE ReferenceIn(resources[resource_name][CHOOSE x \in hits : \A y \in hits : x <= y].properties,
                          property_name)

\* the parameter with the fixed lookup (lines 153-161)
IsDosingAmount(pe, param) == pe.ID = "Dosing001" /\ param.ID = "Dosing_Amount001"

\* what the descriptors of the assignment give for the parameter: the
\* lookup of the first descriptor with the parameter's key and unit, in the
\* first detail where that lookup gives a non-empty reference
ThroughDescriptors(param, asg) ==
    LET D == asg.capability_details
        Both(d) == {m \in 1..Len(D[d].matched_properties) :
                       /\ D[d].matched_properties[m].property_id = param.Key
                       /\ D[d].matched_properties[m].property_unit = param.UnitOfMeasure}
        Ref(d) == Reference(asg.resource, D[d].capability_name,
                            D[d].matched_properties[CHOOSE m \in Both(d) :
                                                       \A n \in Both(d) : m <= n].property_name)
        Resolving == {d \in 1..Len(D) : Both(d) # {} /\ Ref(d) \notin {None, ""}} IN
    IF Resolving = {} THEN "null"
    ELSE Ref(CHOOSE d \in Resolving : \A e \in Resolving : d <= e)

\* C24: a parameter is resolved through a descriptor only when the
\* descriptor has the parameter's key and unit; the details are tried in
\* list order, in each detail only the first descriptor with both is looked
\* up, and the first detail whose lookup gives a non-empty reference
\* determines the identifier; a descriptor with the key and another unit
\* resolves nothing
C24_DescriptorResolution ==
    result = "ok" =>
        LET F == MasterRecipe.Formula.Parameter IN
        \A t \in 1..Len(F) :
            LET pe == PE[out.trace.formula[t][1]]
                param == pe.Parameters[out.trace.formula[t][2]]
                asg == FirstAssignment(pe) IN
            ~IsDosingAmount(pe, param) => AfterColon(F[t].ID) = ThroughDescriptors(param, asg)

C24_Witness ==
    /\ result = "ok"
    /\ Len(MasterRecipe.Formula.Parameter) >= 2
    /\ out.trace.formula[1] = <<1, 1>> /\ out.trace.formula[2] = <<1, 2>>
    /\ Len(FirstAssignment(PE[1]).capability_details) = 3
    /\ FirstAssignment(PE[1]).capability_details[2].matched_properties[2].property_id = PE[1].Parameters[2].Key
    /\ FirstAssignment(PE[1]).capability_details[2].matched_properties[2].property_unit
           # PE[1].Parameters[2].UnitOfMeasure
    /\ MasterRecipe.Formula.Parameter[1].ID = "001:rTemp20"
    /\ MasterRecipe.Formula.Parameter[2].ID = "002:null"


\* C25: the identifier of parameter 'Dosing_Amount001' of element
\* 'Dosing001' is what the lookup of property 'Litre' of capability 'Dosing'
\* on the assigned resource gives, whatever the parameter's key and unit and
\* whatever the assignment's descriptors say; every other parameter gets what
\* its descriptors give and never the result of the fixed lookup
C25_FixedDosingLookup ==
    result = "ok" =>
        LET F == MasterRecipe.Formula.Parameter IN
        \A t \in 1..Len(F) :
            LET pe == PE[out.trace.formula[t][1]]
                param == pe.Parameters[out.trace.formula[t][2]]
                asg == FirstAssignment(pe)
                litre == Reference(asg.resource, "Dosing", "Litre")
                fixed == IF litre \in {None, ""} THEN "null" ELSE litre IN
            /\ (pe.ID = "Dosing001" /\ param.ID = "Dosing_Amount001") => AfterColon(F[t].ID) = fixed
            /\ (pe.ID # "Dosing001" \/ param.ID # "Dosing_Amount001") =>
                   /\ AfterColon(F[t].ID) = ThroughDescriptors(param, asg)
                   /\ ThroughDescriptors(param, asg) # fixed => AfterColon(F[t].ID) # fixed

C25_Witness ==
    /\ result = "ok"
    /\ Len(PE) = 2
    /\ AssignedPositions = {1, 2}
    /\ PE[1].ID = "Dosing001" /\ PE[2].ID = "Dosing001"
    /\ PE[1].Parameters[1].ID = "Dosing_Amount001"
    /\ PE[1].Parameters[2].ID # "Dosing_Amount001"
    /\ FirstAssignment(PE[1]).resource = "resource: HC20"
    /\ ThroughDescriptors(PE[1].Parameters[1], FirstAssignment(PE[1])) = "rTemp20"
    /\ MasterRecipe.Formula.Parameter[1].ID = "001:null"
    /\ MasterRecipe.Formula.Parameter[2].ID = "002:rTemp20"


\* the key under which the cost table holds a resource
CostKey(resource) ==
    CASE resource = "resource: 2025-04_HC10" -> "2025-04_HC10"
      [] resource = "resource: 2025-04_HC20" -> "2025-04_HC20"
      [] resource = "resource: HC20" -> "HC20"
      [] resource = "HC99" -> "HC99"

\* the sum of cost c over the assignments from position k on, counting only
\* resources the cost table holds
RECURSIVE TotalFrom(_, _, _)
TotalFrom(assignments, k, c) ==
    IF k > Len(assignments) THEN 0
    ELSE (IF CostKey(assignments[k].resource) \in DOMAIN resource_costs
          THEN resource_costs[CostKey(assignments[k].resource)][c] ELSE 0)
            + TotalFrom(assignments, k + 1, c)

\* 0.4, 0.3 and 0.3 of the totals, in hundredths
Score(solution) ==
    4 * TotalFrom(solution.assignments, 1, "EnergyCost")
        + 3 * TotalFrom(solution.assignments, 1, "UseCost")
        + 3 * TotalFrom(solution.assignments, 1, "CO2Footprint")

\* the solutions the file gives the optimizer
Ranked == IF uin.readable THEN uin.solutions ELSE <<>>

\* the returned list is the input ranked: one result per input solution with
\* its totals, score and flag, by non-decreasing score, equal scores in input
\* order, and what is reported as optimal is its first result
RankedAsClaimed ==
    /\ Len(uout) = Len(Ranked)
    /\ \A i \in 1..Len(Ranked) :
           \E k \in 1..Len(uout) :
               /\ uout[k].solution_id = Ranked[i].solution_id
               /\ uout[k].total_energy_cost = TotalFrom(Ranked[i].assignments, 1, "EnergyCost")
               /\ uout[k].total_use_cost = TotalFrom(Ranked[i].assignments, 1, "UseCost")
               /\ uout[k].total_co2_footprint = TotalFrom(Ranked[i].assignments, 1, "CO2Footprint")
               /\ uout[k].composite_score = Score(Ranked[i])
               /\ uout[k].material_flow_consistent = Ranked[i].material_flow_consistent
    /\ \A k \in 1..Len(uout) : \A l \in (k + 1)..Len(uout) :
           /\ uout[k].composite_score <= uout[l].composite_score
           /\ uout[k].composite_score = uout[l].composite_score =>
                  uout[k].solution_id < uout[l].solution_id
    /\ result \in {"found", "reported"} =>
           /\ out = <<uout[1]>>
           /\ \A i \in 1..Len(Ranked) : out[1].composite_score <= Score(Ranked[i])
    /\ result = "reported" =>
           /\ optimization.optimal_solution = <<uout[1]>>
           /\ optimization.results = uout

\* C26 as stated: whatever was loaded, the returned list has one result per
\* input solution, by non-decreasing composite score with equal scores in
\* input order; the optimal solution of find_optimal_solution and of the
\* report is the first of the list; the flag is copied and the order depends
\* on score and input position alone; resources without cost data add nothing
C26_RankedResults ==
    result \in {"optimized", "found", "reported"} => RankedAsClaimed

\* C26 as amended: the same when cost data was loaded for some resource;
\* when none was loaded the returned list is empty, whatever the file holds,
\* and nothing is reported as optimal
C26_RankedWhenPriced ==
    result \in {"optimized", "found", "reported"} =>
        IF DOMAIN resource_costs # {} THEN RankedAsClaimed
        ELSE uout = <<>> /\ result = "optimized" /\ out = <<>> /\ optimization = NoReport

C26_Witness ==
    /\ result = "reported"
    /\ Len(Ranked) = 3
    /\ DOMAIN resource_costs = {"2025-04_HC10", "2025-04_HC20"}
    /\ Len(Ranked[1].assignments) = 3 /\ Ranked[1].assignments[1].resource = "resource: HC20"
    /\ Ranked[2].assignments # Ranked[3].assignments
    /\ ~Ranked[2].material_flow_consistent /\ Ranked[3].material_flow_consistent
    /\ Score(Ranked[2]) = Score(Ranked[3]) /\ Score(Ranked[2]) < Score(Ranked[1])
    /\ uout[1].solution_id = 2 /\ uout[2].solution_id = 3 /\ uout[3].solution_id = 1
    /\ uout[3].total_energy_cost = 80
    /\ optimization.optimal_solution[1].solution_id = 2


\* the master recipe the draft gives
DraftRecipe == uout.out.xml[1].MasterRecipe

\* the (from, to) pairs of a list of links
LinkPairs(L) == {<<LinkFrom(L[k]), LinkTo(L[k])>> : k \in 1..Len(L)}

\* a link without its identifier
Unnumbered(link) ==
    [FromIDValue |-> link.FromIDValue, FromType |-> link.FromType,
     ToIDValue |-> link.ToIDValue, ToType |-> link.ToType,
     LinkType |-> link.LinkType, Depiction |-> link.Depiction,
     EvaluationOrder |-> link.EvaluationOrder, Description |-> link.Description]

\* the identifiers of the links are L1..L(n), each once
LinkIds(L, n) ==
    /\ Len(L) = n
    /\ {L[k].ID : k \in 1..Len(L)} = {"L" \o NumText(k) : k \in 1..n}

\* long is short followed by ':' and a text without ':'
SuffixedBy(long, short) ==
    /\ StartsWith(long, short \o ":")
    /\ Len(long) > Len(short) + 1
    /\ Occurrences(Drop(long, Len(short) + 1), ":") = {}

\* what the claim says the two documents have in common, and how links and
\* descriptions differ
AgreeButLinksAndSuffixes ==
    LET D == DraftRecipe
        R == MasterRecipe
        N == Len(R.ProcedureLogic.Step) IN
    /\ uout.out.xml[1].ListHeader = out.xml[1].ListHeader
    /\ uout.out.xml[1].Description = out.xml[1].Description
    /\ D.ID = R.ID /\ D.Version = R.Version /\ D.Description = R.Description
    /\ D.Header = R.Header /\ D.EquipmentRequirement = R.EquipmentRequirement
    /\ D.Formula = R.Formula
    /\ Len(D.ProcedureLogic.Step) = N
    /\ \A k \in 1..N :
           /\ D.ProcedureLogic.Step[k].ID = R.ProcedureLogic.Step[k].ID
           /\ D.ProcedureLogic.Step[k].RecipeElementID = R.ProcedureLogic.Step[k].RecipeElementID
    /\ D.ProcedureLogic.Step[1].Description = R.ProcedureLogic.Step[1].Description
    /\ D.ProcedureLogic.Step[N].Description = R.ProcedureLogic.Step[N].Description
    /\ Len(D.RecipeElement) = Len(R.RecipeElement)
    /\ \A e \in 1..Len(R.RecipeElement) :
           /\ D.RecipeElement[e].ID = R.RecipeElement[e].ID
           /\ D.RecipeElement[e].RecipeElementType = R.RecipeElement[e].RecipeElementType
    /\ D.RecipeElement[1] = R.RecipeElement[1] /\ D.RecipeElement[2] = R.RecipeElement[2]
    /\ \A k \in 2..(N - 1) :
           LET ds == D.ProcedureLogic.Step[k].Description
               rs == R.ProcedureLogic.Step[k].Description
               de == D.RecipeElement[k + 1]
               re == R.RecipeElement[k + 1] IN
           /\ SuffixedBy(rs, ds)
           /\ SuffixedBy(re.Description, de.Description)
           /\ Drop(rs, Len(ds)) = Drop(re.Description, Len(de.Description))
           /\ de.ActualEquipmentID = re.ActualEquipmentID
           /\ de.EquipmentRequirement = re.EquipmentRequirement
           /\ de.Parameter = re.Parameter
    /\ Len(D.ProcedureLogic.Transition) = Len(R.ProcedureLogic.Transition)
    /\ \A i \in 1..Len(R.ProcedureLogic.Transition) :
           D.ProcedureLogic.Transition[i].ID = R.ProcedureLogic.Transition[i].ID
    /\ LinkPairs(D.ProcedureLogic.Link) = LinkPairs(R.ProcedureLogic.Link)
    /\ {Unnumbered(D.ProcedureLogic.Link[k]) : k \in 1..Len(D.ProcedureLogic.Link)}
          = {Unnumbered(R.ProcedureLogic.Link[k]) : k \in 1..Len(R.ProcedureLogic.Link)}
    /\ LinkIds(D.ProcedureLogic.Link, 2 * N - 2)
    /\ LinkIds(R.ProcedureLogic.Link, 2 * N - 2)
    /\ \A k \in 1..(N - 1) :
           /\ D.ProcedureLogic.Link[k].ID = "L" \o NumText(k)
           /\ D.ProcedureLogic.Link[k].FromType = "Step"
           /\ D.ProcedureLogic.Link[N - 1 + k].ID = "L" \o NumText(N - 1 + k)
           /\ D.ProcedureLogic.Link[N - 1 + k].FromType = "Transition"
    /\ \A k \in 1..Len(R.ProcedureLogic.Children) :
           D.ProcedureLogic.Children[k].tag = R.ProcedureLogic.Children[k].tag

\* both generators have run on the files
BothRan == result # "none" /\ uout.result # "none"

\* C27 as stated: on the same inputs the draft and part_000 give the same
\* step ids, recipe-element ids, transition ids, formula entries and set of
\* (from, to) link pairs; the link identifiers are L1..L(2N-2) in both, the
\* draft numbering the step-to-transition links first; the documents differ
\* in nothing but that numbering and the capability-name suffix of step and
\* recipe-element descriptions, so the transitions are the same
C27_DraftDiffersInLinksAndSuffixes ==
    BothRan =>
        /\ uout.result = result
        /\ uout.out.message = out.message
        /\ result = "ok" =>
               /\ AgreeButLinksAndSuffixes
               /\ DraftRecipe.ProcedureLogic.Transition = MasterRecipe.ProcedureLogic.Transition

\* C27 as amended: the same, and the documents differ also in the conditions
\* of the transitions after T1, each of which quotes the description of the
\* step before it as its own generator wrote it
C27_DraftDiffersAlsoInGuards ==
    BothRan =>
        /\ uout.result = result
        /\ uout.out.message = out.message
        /\ result = "ok" =>
               LET D == DraftRecipe.ProcedureLogic
                   R == MasterRecipe.ProcedureLogic IN
               /\ AgreeButLinksAndSuffixes
               /\ D.Transition[1] = R.Transition[1]
               /\ \A i \in 2..Len(R.Transition) :
                      /\ D.Transition[i].Condition = "Step " \o D.Step[i].Description \o " is Completed"
                      /\ R.Transition[i].Condition = "Step " \o R.Step[i].Description \o " is Completed"
                      /\ D.Transition[i].Condition # R.Transition[i].Condition

C27_Witness ==
    /\ BothRan
    /\ result = "ok"
    /\ Len(MasterRecipe.ProcedureLogic.Step) = 4
    /\ MasterRecipe.ProcedureLogic.Link[4].ID = "L4"
    /\ MasterRecipe.ProcedureLogic.Link[4].FromIDValue = "T2"
    /\ DraftRecipe.ProcedureLogic.Link[4].ID = "L4"
    /\ DraftRecipe.ProcedureLogic.Link[4].FromIDValue = "T1"
    /\ DraftRecipe.ProcedureLogic.Step[2].Description = "001:HC20_Mixing_of_Liquids"
    /\ MasterRecipe.ProcedureLogic.Step[2].Description = "001:HC20_Mixing_of_Liquids:Mixing"
    /\ DraftRecipe.RecipeElement[4].ID = "002:u-1"
    /\ MasterRecipe.RecipeElement[4].ID = "002:u-1"

====
